---- MODULE Spec2Model ----
(***************************************************************************)
(* A model of supernotes_to_obsidian (main.py, config.py).                 *)
(*                                                                         *)
(* Text is a sequence of one-character strings.  The content pipeline      *)
(* (ObsidianImporter.process_supernote_content) is modelled pass by pass;  *)
(* the orchestration (main, process_supernote_file and the methods it      *)
(* calls) is modelled as a sequential program whose calls to the note      *)
(* service and to the file system may each succeed or fail.                *)
(*                                                                         *)
(*   SpecText : the pipeline run on every bounded input string             *)
(*   Spec     : one run of main() over an export folder                    *)
(***************************************************************************)
EXTENDS Naturals, Sequences, FiniteSets

VARIABLES
    \* ---- process_supernote_content, pass by pass ----
    input,          \* the argument `content` as passed in
    content,        \* the local `content` (a string)
    words,          \* the local `words` / `processed_words` (a list of strings)
    tpc,            \* position inside process_supernote_content
    \* ---- main() and the importer ----
    pc,             \* position of main()
    escaped,        \* the exception that ended main(), if one did
    session,        \* importer.session
    template_content, \* importer.template_content
    folder,         \* names in config.EXPORT_FOLDER on disk
    listing,        \* the result of os.listdir
    todo,           \* entries of the listing the loop has not visited
    cur,            \* file_path of the running process_supernote_file
    date,           \* the clock, and the `date` handed to the file
    processed_content, \* local of process_supernote_file
    vault,          \* note service: per daily note, whether it exists and
                    \* what was written to it
    calls,          \* note service: the calls issued, in order
    handed,         \* files handed to process_supernote_file
    opened,         \* files whose content was read
    renamed,        \* files renamed with the processed suffix
    printed         \* the error reports printed

tvars == <<input, content, words, tpc>>
ovars == <<pc, escaped, session, template_content, folder, listing, todo, cur, date,
           processed_content, vault, calls, handed, opened, renamed, printed>>
vars == <<input, content, words, tpc, pc, escaped, session, template_content, folder,
          listing, todo, cur, date, processed_content, vault, calls, handed,
          opened, renamed, printed>>

(***************************************************************************)
(* Bounds                                                                  *)
(***************************************************************************)
\* longest enumerated input string of SpecText
MaxLen == 5
\* longest enumerated input string over the wide alphabet
MaxWideLen == 3
\* number of calendar days a run of main() can span
MaxDay == 2

(***************************************************************************)
(* Characters.  A str is a sequence of Unicode code points (0..1114111).   *)
(* The classes are those of the interpreter's Unicode database (14.0.0),   *)
(* each given as the code point ranges it covers.                          *)
(***************************************************************************)
\* '\n', '\r', ' ', '[' and ']'
NL == 10
CR == 13
SP == 32
LB == 91
RB == 93

InRanges(R) == UNION {r[1]..r[2] : r \in R}

\* re's \s on a str, and the whitespace of str.split() and str.strip()
SpaceRanges == {
    <<9, 13>>, <<28, 32>>, <<133, 133>>, <<160, 160>>, <<5760, 5760>>,
    <<8192, 8202>>, <<8232, 8233>>, <<8239, 8239>>, <<8287, 8287>>,
    <<12288, 12288>>}
SpaceChars == InRanges(SpaceRanges)

\* re's \w on a str: alphanumeric characters and the underscore
WordRanges == {
    <<48, 57>>, <<65, 90>>, <<95, 95>>, <<97, 122>>, <<170, 170>>,
    <<178, 179>>, <<181, 181>>, <<185, 186>>, <<188, 190>>, <<192, 214>>,
    <<216, 246>>, <<248, 705>>, <<710, 721>>, <<736, 740>>, <<748, 748>>,
    <<750, 750>>, <<880, 884>>, <<886, 887>>, <<890, 893>>, <<895, 895>>,
    <<902, 902>>, <<904, 906>>, <<908, 908>>, <<910, 929>>, <<931, 1013>>,
    <<1015, 1153>>, <<1162, 1327>>, <<1329, 1366>>, <<1369, 1369>>,
    <<1376, 1416>>, <<1488, 1514>>, <<1519, 1522>>, <<1568, 1610>>,
    <<1632, 1641>>, <<1646, 1647>>, <<1649, 1747>>, <<1749, 1749>>,
    <<1765, 1766>>, <<1774, 1788>>, <<1791, 1791>>, <<1808, 1808>>,
    <<1810, 1839>>, <<1869, 1957>>, <<1969, 1969>>, <<1984, 2026>>,
    <<2036, 2037>>, <<2042, 2042>>, <<2048, 2069>>, <<2074, 2074>>,
    <<2084, 2084>>, <<2088, 2088>>, <<2112, 2136>>, <<2144, 2154>>,
    <<2160, 2183>>, <<2185, 2190>>, <<2208, 2249>>, <<2308, 2361>>,
    <<2365, 2365>>, <<2384, 2384>>, <<2392, 2401>>, <<2406, 2415>>,
    <<2417, 2432>>, <<2437, 2444>>, <<2447, 2448>>, <<2451, 2472>>,
    <<2474, 2480>>, <<2482, 2482>>, <<2486, 2489>>, <<2493, 2493>>,
    <<2510, 2510>>, <<2524, 2525>>, <<2527, 2529>>, <<2534, 2545>>,
    <<2548, 2553>>, <<2556, 2556>>, <<2565, 2570>>, <<2575, 2576>>,
    <<2579, 2600>>, <<2602, 2608>>, <<2610, 2611>>, <<2613, 2614>>,
    <<2616, 2617>>, <<2649, 2652>>, <<2654, 2654>>, <<2662, 2671>>,
    <<2674, 2676>>, <<2693, 2701>>, <<2703, 2705>>, <<2707, 2728>>,
    <<2730, 2736>>, <<2738, 2739>>, <<2741, 2745>>, <<2749, 2749>>,
    <<2768, 2768>>, <<2784, 2785>>, <<2790, 2799>>, <<2809, 2809>>,
    <<2821, 2828>>, <<2831, 2832>>, <<2835, 2856>>, <<2858, 2864>>,
    <<2866, 2867>>, <<2869, 2873>>, <<2877, 2877>>, <<2908, 2909>>,
    <<2911, 2913>>, <<2918, 2927>>, <<2929, 2935>>, <<2947, 2947>>,
    <<2949, 2954>>, <<2958, 2960>>, <<2962, 2965>>, <<2969, 2970>>,
    <<2972, 2972>>, <<2974, 2975>>, <<2979, 2980>>, <<2984, 2986>>,
    <<2990, 3001>>, <<3024, 3024>>, <<3046, 3058>>, <<3077, 3084>>,
    <<3086, 3088>>, <<3090, 3112>>, <<3114, 3129>>, <<3133, 3133>>,
    <<3160, 3162>>, <<3165, 3165>>, <<3168, 3169>>, <<3174, 3183>>,
    <<3192, 3198>>, <<3200, 3200>>, <<3205, 3212>>, <<3214, 3216>>,
    <<3218, 3240>>, <<3242, 3251>>, <<3253, 3257>>, <<3261, 3261>>,
    <<3293, 3294>>, <<3296, 3297>>, <<3302, 3311>>, <<3313, 3314>>,
    <<3332, 3340>>, <<3342, 3344>>, <<3346, 3386>>, <<3389, 3389>>,
    <<3406, 3406>>, <<3412, 3414>>, <<3416, 3425>>, <<3430, 3448>>,
    <<3450, 3455>>, <<3461, 3478>>, <<3482, 3505>>, <<3507, 3515>>,
    <<3517, 3517>>, <<3520, 3526>>, <<3558, 3567>>, <<3585, 3632>>,
    <<3634, 3635>>, <<3648, 3654>>, <<3664, 3673>>, <<3713, 3714>>,
    <<3716, 3716>>, <<3718, 3722>>, <<3724, 3747>>, <<3749, 3749>>,
    <<3751, 3760>>, <<3762, 3763>>, <<3773, 3773>>, <<3776, 3780>>,
    <<3782, 3782>>, <<3792, 3801>>, <<3804, 3807>>, <<3840, 3840>>,
    <<3872, 3891>>, <<3904, 3911>>, <<3913, 3948>>, <<3976, 3980>>,
    <<4096, 4138>>, <<4159, 4169>>, <<4176, 4181>>, <<4186, 4189>>,
    <<4193, 4193>>, <<4197, 4198>>, <<4206, 4208>>, <<4213, 4225>>,
    <<4238, 4238>>, <<4240, 4249>>, <<4256, 4293>>, <<4295, 4295>>,
    <<4301, 4301>>, <<4304, 4346>>, <<4348, 4680>>, <<4682, 4685>>,
    <<4688, 4694>>, <<4696, 4696>>, <<4698, 4701>>, <<4704, 4744>>,
    <<4746, 4749>>, <<4752, 4784>>, <<4786, 4789>>, <<4792, 4798>>,
    <<4800, 4800>>, <<4802, 4805>>, <<4808, 4822>>, <<4824, 4880>>,
    <<4882, 4885>>, <<4888, 4954>>, <<4969, 4988>>, <<4992, 5007>>,
    <<5024, 5109>>, <<5112, 5117>>, <<5121, 5740>>, <<5743, 5759>>,
    <<5761, 5786>>, <<5792, 5866>>, <<5870, 5880>>, <<5888, 5905>>,
    <<5919, 5937>>, <<5952, 5969>>, <<5984, 5996>>, <<5998, 6000>>,
    <<6016, 6067>>, <<6103, 6103>>, <<6108, 6108>>, <<6112, 6121>>,
    <<6128, 6137>>, <<6160, 6169>>, <<6176, 6264>>, <<6272, 6276>>,
    <<6279, 6312>>, <<6314, 6314>>, <<6320, 6389>>, <<6400, 6430>>,
    <<6470, 6509>>, <<6512, 6516>>, <<6528, 6571>>, <<6576, 6601>>,
    <<6608, 6618>>, <<6656, 6678>>, <<6688, 6740>>, <<6784, 6793>>,
    <<6800, 6809>>, <<6823, 6823>>, <<6917, 6963>>, <<6981, 6988>>,
    <<6992, 7001>>, <<7043, 7072>>, <<7086, 7141>>, <<7168, 7203>>,
    <<7232, 7241>>, <<7245, 7293>>, <<7296, 7304>>, <<7312, 7354>>,
    <<7357, 7359>>, <<7401, 7404>>, <<7406, 7411>>, <<7413, 7414>>,
    <<7418, 7418>>, <<7424, 7615>>, <<7680, 7957>>, <<7960, 7965>>,
    <<7968, 8005>>, <<8008, 8013>>, <<8016, 8023>>, <<8025, 8025>>,
    <<8027, 8027>>, <<8029, 8029>>, <<8031, 8061>>, <<8064, 8116>>,
    <<8118, 8124>>, <<8126, 8126>>, <<8130, 8132>>, <<8134, 8140>>,
    <<8144, 8147>>, <<8150, 8155>>, <<8160, 8172>>, <<8178, 8180>>,
    <<8182, 8188>>, <<8304, 8305>>, <<8308, 8313>>, <<8319, 8329>>,
    <<8336, 8348>>, <<8450, 8450>>, <<8455, 8455>>, <<8458, 8467>>,
    <<8469, 8469>>, <<8473, 8477>>, <<8484, 8484>>, <<8486, 8486>>,
    <<8488, 8488>>, <<8490, 8493>>, <<8495, 8505>>, <<8508, 8511>>,
    <<8517, 8521>>, <<8526, 8526>>, <<8528, 8585>>, <<9312, 9371>>,
    <<9450, 9471>>, <<10102, 10131>>, <<11264, 11492>>, <<11499, 11502>>,
    <<11506, 11507>>, <<11517, 11517>>, <<11520, 11557>>, <<11559, 11559>>,
    <<11565, 11565>>, <<11568, 11623>>, <<11631, 11631>>, <<11648, 11670>>,
    <<11680, 11686>>, <<11688, 11694>>, <<11696, 11702>>, <<11704, 11710>>,
    <<11712, 11718>>, <<11720, 11726>>, <<11728, 11734>>, <<11736, 11742>>,
    <<11823, 11823>>, <<12293, 12295>>, <<12321, 12329>>, <<12337, 12341>>,
    <<12344, 12348>>, <<12353, 12438>>, <<12445, 12447>>, <<12449, 12538>>,
    <<12540, 12543>>, <<12549, 12591>>, <<12593, 12686>>, <<12690, 12693>>,
    <<12704, 12735>>, <<12784, 12799>>, <<12832, 12841>>, <<12872, 12879>>,
    <<12881, 12895>>, <<12928, 12937>>, <<12977, 12991>>, <<13312, 19903>>,
    <<19968, 42124>>, <<42192, 42237>>, <<42240, 42508>>, <<42512, 42539>>,
    <<42560, 42606>>, <<42623, 42653>>, <<42656, 42735>>, <<42775, 42783>>,
    <<42786, 42888>>, <<42891, 42954>>, <<42960, 42961>>, <<42963, 42963>>,
    <<42965, 42969>>, <<42994, 43009>>, <<43011, 43013>>, <<43015, 43018>>,
    <<43020, 43042>>, <<43056, 43061>>, <<43072, 43123>>, <<43138, 43187>>,
    <<43216, 43225>>, <<43250, 43255>>, <<43259, 43259>>, <<43261, 43262>>,
    <<43264, 43301>>, <<43312, 43334>>, <<43360, 43388>>, <<43396, 43442>>,
    <<43471, 43481>>, <<43488, 43492>>, <<43494, 43518>>, <<43520, 43560>>,
    <<43584, 43586>>, <<43588, 43595>>, <<43600, 43609>>, <<43616, 43638>>,
    <<43642, 43642>>, <<43646, 43695>>, <<43697, 43697>>, <<43701, 43702>>,
    <<43705, 43709>>, <<43712, 43712>>, <<43714, 43714>>, <<43739, 43741>>,
    <<43744, 43754>>, <<43762, 43764>>, <<43777, 43782>>, <<43785, 43790>>,
    <<43793, 43798>>, <<43808, 43814>>, <<43816, 43822>>, <<43824, 43866>>,
    <<43868, 43881>>, <<43888, 44002>>, <<44016, 44025>>, <<44032, 55203>>,
    <<55216, 55238>>, <<55243, 55291>>, <<63744, 64109>>, <<64112, 64217>>,
    <<64256, 64262>>, <<64275, 64279>>, <<64285, 64285>>, <<64287, 64296>>,
    <<64298, 64310>>, <<64312, 64316>>, <<64318, 64318>>, <<64320, 64321>>,
    <<64323, 64324>>, <<64326, 64433>>, <<64467, 64829>>, <<64848, 64911>>,
    <<64914, 64967>>, <<65008, 65019>>, <<65136, 65140>>, <<65142, 65276>>,
    <<65296, 65305>>, <<65313, 65338>>, <<65345, 65370>>, <<65382, 65470>>,
    <<65474, 65479>>, <<65482, 65487>>, <<65490, 65495>>, <<65498, 65500>>,
    <<65536, 65547>>, <<65549, 65574>>, <<65576, 65594>>, <<65596, 65597>>,
    <<65599, 65613>>, <<65616, 65629>>, <<65664, 65786>>, <<65799, 65843>>,
    <<65856, 65912>>, <<65930, 65931>>, <<66176, 66204>>, <<66208, 66256>>,
    <<66273, 66299>>, <<66304, 66339>>, <<66349, 66378>>, <<66384, 66421>>,
    <<66432, 66461>>, <<66464, 66499>>, <<66504, 66511>>, <<66513, 66517>>,
    <<66560, 66717>>, <<66720, 66729>>, <<66736, 66771>>, <<66776, 66811>>,
    <<66816, 66855>>, <<66864, 66915>>, <<66928, 66938>>, <<66940, 66954>>,
    <<66956, 66962>>, <<66964, 66965>>, <<66967, 66977>>, <<66979, 66993>>,
    <<66995, 67001>>, <<67003, 67004>>, <<67072, 67382>>, <<67392, 67413>>,
    <<67424, 67431>>, <<67456, 67461>>, <<67463, 67504>>, <<67506, 67514>>,
    <<67584, 67589>>, <<67592, 67592>>, <<67594, 67637>>, <<67639, 67640>>,
    <<67644, 67644>>, <<67647, 67669>>, <<67672, 67702>>, <<67705, 67742>>,
    <<67751, 67759>>, <<67808, 67826>>, <<67828, 67829>>, <<67835, 67867>>,
    <<67872, 67897>>, <<67968, 68023>>, <<68028, 68047>>, <<68050, 68096>>,
    <<68112, 68115>>, <<68117, 68119>>, <<68121, 68149>>, <<68160, 68168>>,
    <<68192, 68222>>, <<68224, 68255>>, <<68288, 68295>>, <<68297, 68324>>,
    <<68331, 68335>>, <<68352, 68405>>, <<68416, 68437>>, <<68440, 68466>>,
    <<68472, 68497>>, <<68521, 68527>>, <<68608, 68680>>, <<68736, 68786>>,
    <<68800, 68850>>, <<68858, 68899>>, <<68912, 68921>>, <<69216, 69246>>,
    <<69248, 69289>>, <<69296, 69297>>, <<69376, 69415>>, <<69424, 69445>>,
    <<69457, 69460>>, <<69488, 69505>>, <<69552, 69579>>, <<69600, 69622>>,
    <<69635, 69687>>, <<69714, 69743>>, <<69745, 69746>>, <<69749, 69749>>,
    <<69763, 69807>>, <<69840, 69864>>, <<69872, 69881>>, <<69891, 69926>>,
    <<69942, 69951>>, <<69956, 69956>>, <<69959, 69959>>, <<69968, 70002>>,
    <<70006, 70006>>, <<70019, 70066>>, <<70081, 70084>>, <<70096, 70106>>,
    <<70108, 70108>>, <<70113, 70132>>, <<70144, 70161>>, <<70163, 70187>>,
    <<70272, 70278>>, <<70280, 70280>>, <<70282, 70285>>, <<70287, 70301>>,
    <<70303, 70312>>, <<70320, 70366>>, <<70384, 70393>>, <<70405, 70412>>,
    <<70415, 70416>>, <<70419, 70440>>, <<70442, 70448>>, <<70450, 70451>>,
    <<70453, 70457>>, <<70461, 70461>>, <<70480, 70480>>, <<70493, 70497>>,
    <<70656, 70708>>, <<70727, 70730>>, <<70736, 70745>>, <<70751, 70753>>,
    <<70784, 70831>>, <<70852, 70853>>, <<70855, 70855>>, <<70864, 70873>>,
    <<71040, 71086>>, <<71128, 71131>>, <<71168, 71215>>, <<71236, 71236>>,
    <<71248, 71257>>, <<71296, 71338>>, <<71352, 71352>>, <<71360, 71369>>,
    <<71424, 71450>>, <<71472, 71483>>, <<71488, 71494>>, <<71680, 71723>>,
    <<71840, 71922>>, <<71935, 71942>>, <<71945, 71945>>, <<71948, 71955>>,
    <<71957, 71958>>, <<71960, 71983>>, <<71999, 71999>>, <<72001, 72001>>,
    <<72016, 72025>>, <<72096, 72103>>, <<72106, 72144>>, <<72161, 72161>>,
    <<72163, 72163>>, <<72192, 72192>>, <<72203, 72242>>, <<72250, 72250>>,
    <<72272, 72272>>, <<72284, 72329>>, <<72349, 72349>>, <<72368, 72440>>,
    <<72704, 72712>>, <<72714, 72750>>, <<72768, 72768>>, <<72784, 72812>>,
    <<72818, 72847>>, <<72960, 72966>>, <<72968, 72969>>, <<72971, 73008>>,
    <<73030, 73030>>, <<73040, 73049>>, <<73056, 73061>>, <<73063, 73064>>,
    <<73066, 73097>>, <<73112, 73112>>, <<73120, 73129>>, <<73440, 73458>>,
    <<73648, 73648>>, <<73664, 73684>>, <<73728, 74649>>, <<74752, 74862>>,
    <<74880, 75075>>, <<77712, 77808>>, <<77824, 78894>>, <<82944, 83526>>,
    <<92160, 92728>>, <<92736, 92766>>, <<92768, 92777>>, <<92784, 92862>>,
    <<92864, 92873>>, <<92880, 92909>>, <<92928, 92975>>, <<92992, 92995>>,
    <<93008, 93017>>, <<93019, 93025>>, <<93027, 93047>>, <<93053, 93071>>,
    <<93760, 93846>>, <<93952, 94026>>, <<94032, 94032>>, <<94099, 94111>>,
    <<94176, 94177>>, <<94179, 94179>>, <<94208, 100343>>,
    <<100352, 101589>>, <<101632, 101640>>, <<110576, 110579>>,
    <<110581, 110587>>, <<110589, 110590>>, <<110592, 110882>>,
    <<110928, 110930>>, <<110948, 110951>>, <<110960, 111355>>,
    <<113664, 113770>>, <<113776, 113788>>, <<113792, 113800>>,
    <<113808, 113817>>, <<119520, 119539>>, <<119648, 119672>>,
    <<119808, 119892>>, <<119894, 119964>>, <<119966, 119967>>,
    <<119970, 119970>>, <<119973, 119974>>, <<119977, 119980>>,
    <<119982, 119993>>, <<119995, 119995>>, <<119997, 120003>>,
    <<120005, 120069>>, <<120071, 120074>>, <<120077, 120084>>,
    <<120086, 120092>>, <<120094, 120121>>, <<120123, 120126>>,
    <<120128, 120132>>, <<120134, 120134>>, <<120138, 120144>>,
    <<120146, 120485>>, <<120488, 120512>>, <<120514, 120538>>,
    <<120540, 120570>>, <<120572, 120596>>, <<120598, 120628>>,
    <<120630, 120654>>, <<120656, 120686>>, <<120688, 120712>>,
    <<120714, 120744>>, <<120746, 120770>>, <<120772, 120779>>,
    <<120782, 120831>>, <<122624, 122654>>, <<123136, 123180>>,
    <<123191, 123197>>, <<123200, 123209>>, <<123214, 123214>>,
    <<123536, 123565>>, <<123584, 123627>>, <<123632, 123641>>,
    <<124896, 124902>>, <<124904, 124907>>, <<124909, 124910>>,
    <<124912, 124926>>, <<124928, 125124>>, <<125127, 125135>>,
    <<125184, 125251>>, <<125259, 125259>>, <<125264, 125273>>,
    <<126065, 126123>>, <<126125, 126127>>, <<126129, 126132>>,
    <<126209, 126253>>, <<126255, 126269>>, <<126464, 126467>>,
    <<126469, 126495>>, <<126497, 126498>>, <<126500, 126500>>,
    <<126503, 126503>>, <<126505, 126514>>, <<126516, 126519>>,
    <<126521, 126521>>, <<126523, 126523>>, <<126530, 126530>>,
    <<126535, 126535>>, <<126537, 126537>>, <<126539, 126539>>,
    <<126541, 126543>>, <<126545, 126546>>, <<126548, 126548>>,
    <<126551, 126551>>, <<126553, 126553>>, <<126555, 126555>>,
    <<126557, 126557>>, <<126559, 126559>>, <<126561, 126562>>,
    <<126564, 126564>>, <<126567, 126570>>, <<126572, 126578>>,
    <<126580, 126583>>, <<126585, 126588>>, <<126590, 126590>>,
    <<126592, 126601>>, <<126603, 126619>>, <<126625, 126627>>,
    <<126629, 126633>>, <<126635, 126651>>, <<127232, 127244>>,
    <<130032, 130041>>, <<131072, 173791>>, <<173824, 177976>>,
    <<177984, 178205>>, <<178208, 183969>>, <<183984, 191456>>,
    <<194560, 195101>>, <<196608, 201546>>}
WordChars == InRanges(WordRanges)

\* characters c with c.isupper()
UpperRanges == {
    <<65, 90>>, <<192, 214>>, <<216, 222>>, <<256, 256>>, <<258, 258>>,
    <<260, 260>>, <<262, 262>>, <<264, 264>>, <<266, 266>>, <<268, 268>>,
    <<270, 270>>, <<272, 272>>, <<274, 274>>, <<276, 276>>, <<278, 278>>,
    <<280, 280>>, <<282, 282>>, <<284, 284>>, <<286, 286>>, <<288, 288>>,
    <<290, 290>>, <<292, 292>>, <<294, 294>>, <<296, 296>>, <<298, 298>>,
    <<300, 300>>, <<302, 302>>, <<304, 304>>, <<306, 306>>, <<308, 308>>,
    <<310, 310>>, <<313, 313>>, <<315, 315>>, <<317, 317>>, <<319, 319>>,
    <<321, 321>>, <<323, 323>>, <<325, 325>>, <<327, 327>>, <<330, 330>>,
    <<332, 332>>, <<334, 334>>, <<336, 336>>, <<338, 338>>, <<340, 340>>,
    <<342, 342>>, <<344, 344>>, <<346, 346>>, <<348, 348>>, <<350, 350>>,
    <<352, 352>>, <<354, 354>>, <<356, 356>>, <<358, 358>>, <<360, 360>>,
    <<362, 362>>, <<364, 364>>, <<366, 366>>, <<368, 368>>, <<370, 370>>,
    <<372, 372>>, <<374, 374>>, <<376, 377>>, <<379, 379>>, <<381, 381>>,
    <<385, 386>>, <<388, 388>>, <<390, 391>>, <<393, 395>>, <<398, 401>>,
    <<403, 404>>, <<406, 408>>, <<412, 413>>, <<415, 416>>, <<418, 418>>,
    <<420, 420>>, <<422, 423>>, <<425, 425>>, <<428, 428>>, <<430, 431>>,
    <<433, 435>>, <<437, 437>>, <<439, 440>>, <<444, 444>>, <<452, 452>>,
    <<455, 455>>, <<458, 458>>, <<461, 461>>, <<463, 463>>, <<465, 465>>,
    <<467, 467>>, <<469, 469>>, <<471, 471>>, <<473, 473>>, <<475, 475>>,
    <<478, 478>>, <<480, 480>>, <<482, 482>>, <<484, 484>>, <<486, 486>>,
    <<488, 488>>, <<490, 490>>, <<492, 492>>, <<494, 494>>, <<497, 497>>,
    <<500, 500>>, <<502, 504>>, <<506, 506>>, <<508, 508>>, <<510, 510>>,
    <<512, 512>>, <<514, 514>>, <<516, 516>>, <<518, 518>>, <<520, 520>>,
    <<522, 522>>, <<524, 524>>, <<526, 526>>, <<528, 528>>, <<530, 530>>,
    <<532, 532>>, <<534, 534>>, <<536, 536>>, <<538, 538>>, <<540, 540>>,
    <<542, 542>>, <<544, 544>>, <<546, 546>>, <<548, 548>>, <<550, 550>>,
    <<552, 552>>, <<554, 554>>, <<556, 556>>, <<558, 558>>, <<560, 560>>,
    <<562, 562>>, <<570, 571>>, <<573, 574>>, <<577, 577>>, <<579, 582>>,
    <<584, 584>>, <<586, 586>>, <<588, 588>>, <<590, 590>>, <<880, 880>>,
    <<882, 882>>, <<886, 886>>, <<895, 895>>, <<902, 902>>, <<904, 906>>,
    <<908, 908>>, <<910, 911>>, <<913, 929>>, <<931, 939>>, <<975, 975>>,
    <<978, 980>>, <<984, 984>>, <<986, 986>>, <<988, 988>>, <<990, 990>>,
    <<992, 992>>, <<994, 994>>, <<996, 996>>, <<998, 998>>, <<1000, 1000>>,
    <<1002, 1002>>, <<1004, 1004>>, <<1006, 1006>>, <<1012, 1012>>,
    <<1015, 1015>>, <<1017, 1018>>, <<1021, 1071>>, <<1120, 1120>>,
    <<1122, 1122>>, <<1124, 1124>>, <<1126, 1126>>, <<1128, 1128>>,
    <<1130, 1130>>, <<1132, 1132>>, <<1134, 1134>>, <<1136, 1136>>,
    <<1138, 1138>>, <<1140, 1140>>, <<1142, 1142>>, <<1144, 1144>>,
    <<1146, 1146>>, <<1148, 1148>>, <<1150, 1150>>, <<1152, 1152>>,
    <<1162, 1162>>, <<1164, 1164>>, <<1166, 1166>>, <<1168, 1168>>,
    <<1170, 1170>>, <<1172, 1172>>, <<1174, 1174>>, <<1176, 1176>>,
    <<1178, 1178>>, <<1180, 1180>>, <<1182, 1182>>, <<1184, 1184>>,
    <<1186, 1186>>, <<1188, 1188>>, <<1190, 1190>>, <<1192, 1192>>,
    <<1194, 1194>>, <<1196, 1196>>, <<1198, 1198>>, <<1200, 1200>>,
    <<1202, 1202>>, <<1204, 1204>>, <<1206, 1206>>, <<1208, 1208>>,
    <<1210, 1210>>, <<1212, 1212>>, <<1214, 1214>>, <<1216, 1217>>,
    <<1219, 1219>>, <<1221, 1221>>, <<1223, 1223>>, <<1225, 1225>>,
    <<1227, 1227>>, <<1229, 1229>>, <<1232, 1232>>, <<1234, 1234>>,
    <<1236, 1236>>, <<1238, 1238>>, <<1240, 1240>>, <<1242, 1242>>,
    <<1244, 1244>>, <<1246, 1246>>, <<1248, 1248>>, <<1250, 1250>>,
    <<1252, 1252>>, <<1254, 1254>>, <<1256, 1256>>, <<1258, 1258>>,
    <<1260, 1260>>, <<1262, 1262>>, <<1264, 1264>>, <<1266, 1266>>,
    <<1268, 1268>>, <<1270, 1270>>, <<1272, 1272>>, <<1274, 1274>>,
    <<1276, 1276>>, <<1278, 1278>>, <<1280, 1280>>, <<1282, 1282>>,
    <<1284, 1284>>, <<1286, 1286>>, <<1288, 1288>>, <<1290, 1290>>,
    <<1292, 1292>>, <<1294, 1294>>, <<1296, 1296>>, <<1298, 1298>>,
    <<1300, 1300>>, <<1302, 1302>>, <<1304, 1304>>, <<1306, 1306>>,
    <<1308, 1308>>, <<1310, 1310>>, <<1312, 1312>>, <<1314, 1314>>,
    <<1316, 1316>>, <<1318, 1318>>, <<1320, 1320>>, <<1322, 1322>>,
    <<1324, 1324>>, <<1326, 1326>>, <<1329, 1366>>, <<4256, 4293>>,
    <<4295, 4295>>, <<4301, 4301>>, <<5024, 5109>>, <<7312, 7354>>,
    <<7357, 7359>>, <<7680, 7680>>, <<7682, 7682>>, <<7684, 7684>>,
    <<7686, 7686>>, <<7688, 7688>>, <<7690, 7690>>, <<7692, 7692>>,
    <<7694, 7694>>, <<7696, 7696>>, <<7698, 7698>>, <<7700, 7700>>,
    <<7702, 7702>>, <<7704, 7704>>, <<7706, 7706>>, <<7708, 7708>>,
    <<7710, 7710>>, <<7712, 7712>>, <<7714, 7714>>, <<7716, 7716>>,
    <<7718, 7718>>, <<7720, 7720>>, <<7722, 7722>>, <<7724, 7724>>,
    <<7726, 7726>>, <<7728, 7728>>, <<7730, 7730>>, <<7732, 7732>>,
    <<7734, 7734>>, <<7736, 7736>>, <<7738, 7738>>, <<7740, 7740>>,
    <<7742, 7742>>, <<7744, 7744>>, <<7746, 7746>>, <<7748, 7748>>,
    <<7750, 7750>>, <<7752, 7752>>, <<7754, 7754>>, <<7756, 7756>>,
    <<7758, 7758>>, <<7760, 7760>>, <<7762, 7762>>, <<7764, 7764>>,
    <<7766, 7766>>, <<7768, 7768>>, <<7770, 7770>>, <<7772, 7772>>,
    <<7774, 7774>>, <<7776, 7776>>, <<7778, 7778>>, <<7780, 7780>>,
    <<7782, 7782>>, <<7784, 7784>>, <<7786, 7786>>, <<7788, 7788>>,
    <<7790, 7790>>, <<7792, 7792>>, <<7794, 7794>>, <<7796, 7796>>,
    <<7798, 7798>>, <<7800, 7800>>, <<7802, 7802>>, <<7804, 7804>>,
    <<7806, 7806>>, <<7808, 7808>>, <<7810, 7810>>, <<7812, 7812>>,
    <<7814, 7814>>, <<7816, 7816>>, <<7818, 7818>>, <<7820, 7820>>,
    <<7822, 7822>>, <<7824, 7824>>, <<7826, 7826>>, <<7828, 7828>>,
    <<7838, 7838>>, <<7840, 7840>>, <<7842, 7842>>, <<7844, 7844>>,
    <<7846, 7846>>, <<7848, 7848>>, <<7850, 7850>>, <<7852, 7852>>,
    <<7854, 7854>>, <<7856, 7856>>, <<7858, 7858>>, <<7860, 7860>>,
    <<7862, 7862>>, <<7864, 7864>>, <<7866, 7866>>, <<7868, 7868>>,
    <<7870, 7870>>, <<7872, 7872>>, <<7874, 7874>>, <<7876, 7876>>,
    <<7878, 7878>>, <<7880, 7880>>, <<7882, 7882>>, <<7884, 7884>>,
    <<7886, 7886>>, <<7888, 7888>>, <<7890, 7890>>, <<7892, 7892>>,
    <<7894, 7894>>, <<7896, 7896>>, <<7898, 7898>>, <<7900, 7900>>,
    <<7902, 7902>>, <<7904, 7904>>, <<7906, 7906>>, <<7908, 7908>>,
    <<7910, 7910>>, <<7912, 7912>>, <<7914, 7914>>, <<7916, 7916>>,
    <<7918, 7918>>, <<7920, 7920>>, <<7922, 7922>>, <<7924, 7924>>,
    <<7926, 7926>>, <<7928, 7928>>, <<7930, 7930>>, <<7932, 7932>>,
    <<7934, 7934>>, <<7944, 7951>>, <<7960, 7965>>, <<7976, 7983>>,
    <<7992, 7999>>, <<8008, 8013>>, <<8025, 8025>>, <<8027, 8027>>,
    <<8029, 8029>>, <<8031, 8031>>, <<8040, 8047>>, <<8120, 8123>>,
    <<8136, 8139>>, <<8152, 8155>>, <<8168, 8172>>, <<8184, 8187>>,
    <<8450, 8450>>, <<8455, 8455>>, <<8459, 8461>>, <<8464, 8466>>,
    <<8469, 8469>>, <<8473, 8477>>, <<8484, 8484>>, <<8486, 8486>>,
    <<8488, 8488>>, <<8490, 8493>>, <<8496, 8499>>, <<8510, 8511>>,
    <<8517, 8517>>, <<8544, 8559>>, <<8579, 8579>>, <<9398, 9423>>,
    <<11264, 11311>>, <<11360, 11360>>, <<11362, 11364>>, <<11367, 11367>>,
    <<11369, 11369>>, <<11371, 11371>>, <<11373, 11376>>, <<11378, 11378>>,
    <<11381, 11381>>, <<11390, 11392>>, <<11394, 11394>>, <<11396, 11396>>,
    <<11398, 11398>>, <<11400, 11400>>, <<11402, 11402>>, <<11404, 11404>>,
    <<11406, 11406>>, <<11408, 11408>>, <<11410, 11410>>, <<11412, 11412>>,
    <<11414, 11414>>, <<11416, 11416>>, <<11418, 11418>>, <<11420, 11420>>,
    <<11422, 11422>>, <<11424, 11424>>, <<11426, 11426>>, <<11428, 11428>>,
    <<11430, 11430>>, <<11432, 11432>>, <<11434, 11434>>, <<11436, 11436>>,
    <<11438, 11438>>, <<11440, 11440>>, <<11442, 11442>>, <<11444, 11444>>,
    <<11446, 11446>>, <<11448, 11448>>, <<11450, 11450>>, <<11452, 11452>>,
    <<11454, 11454>>, <<11456, 11456>>, <<11458, 11458>>, <<11460, 11460>>,
    <<11462, 11462>>, <<11464, 11464>>, <<11466, 11466>>, <<11468, 11468>>,
    <<11470, 11470>>, <<11472, 11472>>, <<11474, 11474>>, <<11476, 11476>>,
    <<11478, 11478>>, <<11480, 11480>>, <<11482, 11482>>, <<11484, 11484>>,
    <<11486, 11486>>, <<11488, 11488>>, <<11490, 11490>>, <<11499, 11499>>,
    <<11501, 11501>>, <<11506, 11506>>, <<42560, 42560>>, <<42562, 42562>>,
    <<42564, 42564>>, <<42566, 42566>>, <<42568, 42568>>, <<42570, 42570>>,
    <<42572, 42572>>, <<42574, 42574>>, <<42576, 42576>>, <<42578, 42578>>,
    <<42580, 42580>>, <<42582, 42582>>, <<42584, 42584>>, <<42586, 42586>>,
    <<42588, 42588>>, <<42590, 42590>>, <<42592, 42592>>, <<42594, 42594>>,
    <<42596, 42596>>, <<42598, 42598>>, <<42600, 42600>>, <<42602, 42602>>,
    <<42604, 42604>>, <<42624, 42624>>, <<42626, 42626>>, <<42628, 42628>>,
    <<42630, 42630>>, <<42632, 42632>>, <<42634, 42634>>, <<42636, 42636>>,
    <<42638, 42638>>, <<42640, 42640>>, <<42642, 42642>>, <<42644, 42644>>,
    <<42646, 42646>>, <<42648, 42648>>, <<42650, 42650>>, <<42786, 42786>>,
    <<42788, 42788>>, <<42790, 42790>>, <<42792, 42792>>, <<42794, 42794>>,
    <<42796, 42796>>, <<42798, 42798>>, <<42802, 42802>>, <<42804, 42804>>,
    <<42806, 42806>>, <<42808, 42808>>, <<42810, 42810>>, <<42812, 42812>>,
    <<42814, 42814>>, <<42816, 42816>>, <<42818, 42818>>, <<42820, 42820>>,
    <<42822, 42822>>, <<42824, 42824>>, <<42826, 42826>>, <<42828, 42828>>,
    <<42830, 42830>>, <<42832, 42832>>, <<42834, 42834>>, <<42836, 42836>>,
    <<42838, 42838>>, <<42840, 42840>>, <<42842, 42842>>, <<42844, 42844>>,
    <<42846, 42846>>, <<42848, 42848>>, <<42850, 42850>>, <<42852, 42852>>,
    <<42854, 42854>>, <<42856, 42856>>, <<42858, 42858>>, <<42860, 42860>>,
    <<42862, 42862>>, <<42873, 42873>>, <<42875, 42875>>, <<42877, 42878>>,
    <<42880, 42880>>, <<42882, 42882>>, <<42884, 42884>>, <<42886, 42886>>,
    <<42891, 42891>>, <<42893, 42893>>, <<42896, 42896>>, <<42898, 42898>>,
    <<42902, 42902>>, <<42904, 42904>>, <<42906, 42906>>, <<42908, 42908>>,
    <<42910, 42910>>, <<42912, 42912>>, <<42914, 42914>>, <<42916, 42916>>,
    <<42918, 42918>>, <<42920, 42920>>, <<42922, 42926>>, <<42928, 42932>>,
    <<42934, 42934>>, <<42936, 42936>>, <<42938, 42938>>, <<42940, 42940>>,
    <<42942, 42942>>, <<42944, 42944>>, <<42946, 42946>>, <<42948, 42951>>,
    <<42953, 42953>>, <<42960, 42960>>, <<42966, 42966>>, <<42968, 42968>>,
    <<42997, 42997>>, <<65313, 65338>>, <<66560, 66599>>, <<66736, 66771>>,
    <<66928, 66938>>, <<66940, 66954>>, <<66956, 66962>>, <<66964, 66965>>,
    <<68736, 68786>>, <<71840, 71871>>, <<93760, 93791>>, <<119808, 119833>>,
    <<119860, 119885>>, <<119912, 119937>>, <<119964, 119964>>,
    <<119966, 119967>>, <<119970, 119970>>, <<119973, 119974>>,
    <<119977, 119980>>, <<119982, 119989>>, <<120016, 120041>>,
    <<120068, 120069>>, <<120071, 120074>>, <<120077, 120084>>,
    <<120086, 120092>>, <<120120, 120121>>, <<120123, 120126>>,
    <<120128, 120132>>, <<120134, 120134>>, <<120138, 120144>>,
    <<120172, 120197>>, <<120224, 120249>>, <<120276, 120301>>,
    <<120328, 120353>>, <<120380, 120405>>, <<120432, 120457>>,
    <<120488, 120512>>, <<120546, 120570>>, <<120604, 120628>>,
    <<120662, 120686>>, <<120720, 120744>>, <<120778, 120778>>,
    <<125184, 125217>>, <<127280, 127305>>, <<127312, 127337>>,
    <<127344, 127369>>}
UpperChars == InRanges(UpperRanges)

\* characters c with c.islower()
LowerRanges == {
    <<97, 122>>, <<170, 170>>, <<181, 181>>, <<186, 186>>, <<223, 246>>,
    <<248, 255>>, <<257, 257>>, <<259, 259>>, <<261, 261>>, <<263, 263>>,
    <<265, 265>>, <<267, 267>>, <<269, 269>>, <<271, 271>>, <<273, 273>>,
    <<275, 275>>, <<277, 277>>, <<279, 279>>, <<281, 281>>, <<283, 283>>,
    <<285, 285>>, <<287, 287>>, <<289, 289>>, <<291, 291>>, <<293, 293>>,
    <<295, 295>>, <<297, 297>>, <<299, 299>>, <<301, 301>>, <<303, 303>>,
    <<305, 305>>, <<307, 307>>, <<309, 309>>, <<311, 312>>, <<314, 314>>,
    <<316, 316>>, <<318, 318>>, <<320, 320>>, <<322, 322>>, <<324, 324>>,
    <<326, 326>>, <<328, 329>>, <<331, 331>>, <<333, 333>>, <<335, 335>>,
    <<337, 337>>, <<339, 339>>, <<341, 341>>, <<343, 343>>, <<345, 345>>,
    <<347, 347>>, <<349, 349>>, <<351, 351>>, <<353, 353>>, <<355, 355>>,
    <<357, 357>>, <<359, 359>>, <<361, 361>>, <<363, 363>>, <<365, 365>>,
    <<367, 367>>, <<369, 369>>, <<371, 371>>, <<373, 373>>, <<375, 375>>,
    <<378, 378>>, <<380, 380>>, <<382, 384>>, <<387, 387>>, <<389, 389>>,
    <<392, 392>>, <<396, 397>>, <<402, 402>>, <<405, 405>>, <<409, 411>>,
    <<414, 414>>, <<417, 417>>, <<419, 419>>, <<421, 421>>, <<424, 424>>,
    <<426, 427>>, <<429, 429>>, <<432, 432>>, <<436, 436>>, <<438, 438>>,
    <<441, 442>>, <<445, 447>>, <<454, 454>>, <<457, 457>>, <<460, 460>>,
    <<462, 462>>, <<464, 464>>, <<466, 466>>, <<468, 468>>, <<470, 470>>,
    <<472, 472>>, <<474, 474>>, <<476, 477>>, <<479, 479>>, <<481, 481>>,
    <<483, 483>>, <<485, 485>>, <<487, 487>>, <<489, 489>>, <<491, 491>>,
    <<493, 493>>, <<495, 496>>, <<499, 499>>, <<501, 501>>, <<505, 505>>,
    <<507, 507>>, <<509, 509>>, <<511, 511>>, <<513, 513>>, <<515, 515>>,
    <<517, 517>>, <<519, 519>>, <<521, 521>>, <<523, 523>>, <<525, 525>>,
    <<527, 527>>, <<529, 529>>, <<531, 531>>, <<533, 533>>, <<535, 535>>,
    <<537, 537>>, <<539, 539>>, <<541, 541>>, <<543, 543>>, <<545, 545>>,
    <<547, 547>>, <<549, 549>>, <<551, 551>>, <<553, 553>>, <<555, 555>>,
    <<557, 557>>, <<559, 559>>, <<561, 561>>, <<563, 569>>, <<572, 572>>,
    <<575, 576>>, <<578, 578>>, <<583, 583>>, <<585, 585>>, <<587, 587>>,
    <<589, 589>>, <<591, 659>>, <<661, 696>>, <<704, 705>>, <<736, 740>>,
    <<837, 837>>, <<881, 881>>, <<883, 883>>, <<887, 887>>, <<890, 893>>,
    <<912, 912>>, <<940, 974>>, <<976, 977>>, <<981, 983>>, <<985, 985>>,
    <<987, 987>>, <<989, 989>>, <<991, 991>>, <<993, 993>>, <<995, 995>>,
    <<997, 997>>, <<999, 999>>, <<1001, 1001>>, <<1003, 1003>>,
    <<1005, 1005>>, <<1007, 1011>>, <<1013, 1013>>, <<1016, 1016>>,
    <<1019, 1020>>, <<1072, 1119>>, <<1121, 1121>>, <<1123, 1123>>,
    <<1125, 1125>>, <<1127, 1127>>, <<1129, 1129>>, <<1131, 1131>>,
    <<1133, 1133>>, <<1135, 1135>>, <<1137, 1137>>, <<1139, 1139>>,
    <<1141, 1141>>, <<1143, 1143>>, <<1145, 1145>>, <<1147, 1147>>,
    <<1149, 1149>>, <<1151, 1151>>, <<1153, 1153>>, <<1163, 1163>>,
    <<1165, 1165>>, <<1167, 1167>>, <<1169, 1169>>, <<1171, 1171>>,
    <<1173, 1173>>, <<1175, 1175>>, <<1177, 1177>>, <<1179, 1179>>,
    <<1181, 1181>>, <<1183, 1183>>, <<1185, 1185>>, <<1187, 1187>>,
    <<1189, 1189>>, <<1191, 1191>>, <<1193, 1193>>, <<1195, 1195>>,
    <<1197, 1197>>, <<1199, 1199>>, <<1201, 1201>>, <<1203, 1203>>,
    <<1205, 1205>>, <<1207, 1207>>, <<1209, 1209>>, <<1211, 1211>>,
    <<1213, 1213>>, <<1215, 1215>>, <<1218, 1218>>, <<1220, 1220>>,
    <<1222, 1222>>, <<1224, 1224>>, <<1226, 1226>>, <<1228, 1228>>,
    <<1230, 1231>>, <<1233, 1233>>, <<1235, 1235>>, <<1237, 1237>>,
    <<1239, 1239>>, <<1241, 1241>>, <<1243, 1243>>, <<1245, 1245>>,
    <<1247, 1247>>, <<1249, 1249>>, <<1251, 1251>>, <<1253, 1253>>,
    <<1255, 1255>>, <<1257, 1257>>, <<1259, 1259>>, <<1261, 1261>>,
    <<1263, 1263>>, <<1265, 1265>>, <<1267, 1267>>, <<1269, 1269>>,
    <<1271, 1271>>, <<1273, 1273>>, <<1275, 1275>>, <<1277, 1277>>,
    <<1279, 1279>>, <<1281, 1281>>, <<1283, 1283>>, <<1285, 1285>>,
    <<1287, 1287>>, <<1289, 1289>>, <<1291, 1291>>, <<1293, 1293>>,
    <<1295, 1295>>, <<1297, 1297>>, <<1299, 1299>>, <<1301, 1301>>,
    <<1303, 1303>>, <<1305, 1305>>, <<1307, 1307>>, <<1309, 1309>>,
    <<1311, 1311>>, <<1313, 1313>>, <<1315, 1315>>, <<1317, 1317>>,
    <<1319, 1319>>, <<1321, 1321>>, <<1323, 1323>>, <<1325, 1325>>,
    <<1327, 1327>>, <<1376, 1416>>, <<4304, 4346>>, <<4349, 4351>>,
    <<5112, 5117>>, <<7296, 7304>>, <<7424, 7615>>, <<7681, 7681>>,
    <<7683, 7683>>, <<7685, 7685>>, <<7687, 7687>>, <<7689, 7689>>,
    <<7691, 7691>>, <<7693, 7693>>, <<7695, 7695>>, <<7697, 7697>>,
    <<7699, 7699>>, <<7701, 7701>>, <<7703, 7703>>, <<7705, 7705>>,
    <<7707, 7707>>, <<7709, 7709>>, <<7711, 7711>>, <<7713, 7713>>,
    <<7715, 7715>>, <<7717, 7717>>, <<7719, 7719>>, <<7721, 7721>>,
    <<7723, 7723>>, <<7725, 7725>>, <<7727, 7727>>, <<7729, 7729>>,
    <<7731, 7731>>, <<7733, 7733>>, <<7735, 7735>>, <<7737, 7737>>,
    <<7739, 7739>>, <<7741, 7741>>, <<7743, 7743>>, <<7745, 7745>>,
    <<7747, 7747>>, <<7749, 7749>>, <<7751, 7751>>, <<7753, 7753>>,
    <<7755, 7755>>, <<7757, 7757>>, <<7759, 7759>>, <<7761, 7761>>,
    <<7763, 7763>>, <<7765, 7765>>, <<7767, 7767>>, <<7769, 7769>>,
    <<7771, 7771>>, <<7773, 7773>>, <<7775, 7775>>, <<7777, 7777>>,
    <<7779, 7779>>, <<7781, 7781>>, <<7783, 7783>>, <<7785, 7785>>,
    <<7787, 7787>>, <<7789, 7789>>, <<7791, 7791>>, <<7793, 7793>>,
    <<7795, 7795>>, <<7797, 7797>>, <<7799, 7799>>, <<7801, 7801>>,
    <<7803, 7803>>, <<7805, 7805>>, <<7807, 7807>>, <<7809, 7809>>,
    <<7811, 7811>>, <<7813, 7813>>, <<7815, 7815>>, <<7817, 7817>>,
    <<7819, 7819>>, <<7821, 7821>>, <<7823, 7823>>, <<7825, 7825>>,
    <<7827, 7827>>, <<7829, 7837>>, <<7839, 7839>>, <<7841, 7841>>,
    <<7843, 7843>>, <<7845, 7845>>, <<7847, 7847>>, <<7849, 7849>>,
    <<7851, 7851>>, <<7853, 7853>>, <<7855, 7855>>, <<7857, 7857>>,
    <<7859, 7859>>, <<7861, 7861>>, <<7863, 7863>>, <<7865, 7865>>,
    <<7867, 7867>>, <<7869, 7869>>, <<7871, 7871>>, <<7873, 7873>>,
    <<7875, 7875>>, <<7877, 7877>>, <<7879, 7879>>, <<7881, 7881>>,
    <<7883, 7883>>, <<7885, 7885>>, <<7887, 7887>>, <<7889, 7889>>,
    <<7891, 7891>>, <<7893, 7893>>, <<7895, 7895>>, <<7897, 7897>>,
    <<7899, 7899>>, <<7901, 7901>>, <<7903, 7903>>, <<7905, 7905>>,
    <<7907, 7907>>, <<7909, 7909>>, <<7911, 7911>>, <<7913, 7913>>,
    <<7915, 7915>>, <<7917, 7917>>, <<7919, 7919>>, <<7921, 7921>>,
    <<7923, 7923>>, <<7925, 7925>>, <<7927, 7927>>, <<7929, 7929>>,
    <<7931, 7931>>, <<7933, 7933>>, <<7935, 7943>>, <<7952, 7957>>,
    <<7968, 7975>>, <<7984, 7991>>, <<8000, 8005>>, <<8016, 8023>>,
    <<8032, 8039>>, <<8048, 8061>>, <<8064, 8071>>, <<8080, 8087>>,
    <<8096, 8103>>, <<8112, 8116>>, <<8118, 8119>>, <<8126, 8126>>,
    <<8130, 8132>>, <<8134, 8135>>, <<8144, 8147>>, <<8150, 8151>>,
    <<8160, 8167>>, <<8178, 8180>>, <<8182, 8183>>, <<8305, 8305>>,
    <<8319, 8319>>, <<8336, 8348>>, <<8458, 8458>>, <<8462, 8463>>,
    <<8467, 8467>>, <<8495, 8495>>, <<8500, 8500>>, <<8505, 8505>>,
    <<8508, 8509>>, <<8518, 8521>>, <<8526, 8526>>, <<8560, 8575>>,
    <<8580, 8580>>, <<9424, 9449>>, <<11312, 11359>>, <<11361, 11361>>,
    <<11365, 11366>>, <<11368, 11368>>, <<11370, 11370>>, <<11372, 11372>>,
    <<11377, 11377>>, <<11379, 11380>>, <<11382, 11389>>, <<11393, 11393>>,
    <<11395, 11395>>, <<11397, 11397>>, <<11399, 11399>>, <<11401, 11401>>,
    <<11403, 11403>>, <<11405, 11405>>, <<11407, 11407>>, <<11409, 11409>>,
    <<11411, 11411>>, <<11413, 11413>>, <<11415, 11415>>, <<11417, 11417>>,
    <<11419, 11419>>, <<11421, 11421>>, <<11423, 11423>>, <<11425, 11425>>,
    <<11427, 11427>>, <<11429, 11429>>, <<11431, 11431>>, <<11433, 11433>>,
    <<11435, 11435>>, <<11437, 11437>>, <<11439, 11439>>, <<11441, 11441>>,
    <<11443, 11443>>, <<11445, 11445>>, <<11447, 11447>>, <<11449, 11449>>,
    <<11451, 11451>>, <<11453, 11453>>, <<11455, 11455>>, <<11457, 11457>>,
    <<11459, 11459>>, <<11461, 11461>>, <<11463, 11463>>, <<11465, 11465>>,
    <<11467, 11467>>, <<11469, 11469>>, <<11471, 11471>>, <<11473, 11473>>,
    <<11475, 11475>>, <<11477, 11477>>, <<11479, 11479>>, <<11481, 11481>>,
    <<11483, 11483>>, <<11485, 11485>>, <<11487, 11487>>, <<11489, 11489>>,
    <<11491, 11492>>, <<11500, 11500>>, <<11502, 11502>>, <<11507, 11507>>,
    <<11520, 11557>>, <<11559, 11559>>, <<11565, 11565>>, <<42561, 42561>>,
    <<42563, 42563>>, <<42565, 42565>>, <<42567, 42567>>, <<42569, 42569>>,
    <<42571, 42571>>, <<42573, 42573>>, <<42575, 42575>>, <<42577, 42577>>,
    <<42579, 42579>>, <<42581, 42581>>, <<42583, 42583>>, <<42585, 42585>>,
    <<42587, 42587>>, <<42589, 42589>>, <<42591, 42591>>, <<42593, 42593>>,
    <<42595, 42595>>, <<42597, 42597>>, <<42599, 42599>>, <<42601, 42601>>,
    <<42603, 42603>>, <<42605, 42605>>, <<42625, 42625>>, <<42627, 42627>>,
    <<42629, 42629>>, <<42631, 42631>>, <<42633, 42633>>, <<42635, 42635>>,
    <<42637, 42637>>, <<42639, 42639>>, <<42641, 42641>>, <<42643, 42643>>,
    <<42645, 42645>>, <<42647, 42647>>, <<42649, 42649>>, <<42651, 42653>>,
    <<42787, 42787>>, <<42789, 42789>>, <<42791, 42791>>, <<42793, 42793>>,
    <<42795, 42795>>, <<42797, 42797>>, <<42799, 42801>>, <<42803, 42803>>,
    <<42805, 42805>>, <<42807, 42807>>, <<42809, 42809>>, <<42811, 42811>>,
    <<42813, 42813>>, <<42815, 42815>>, <<42817, 42817>>, <<42819, 42819>>,
    <<42821, 42821>>, <<42823, 42823>>, <<42825, 42825>>, <<42827, 42827>>,
    <<42829, 42829>>, <<42831, 42831>>, <<42833, 42833>>, <<42835, 42835>>,
    <<42837, 42837>>, <<42839, 42839>>, <<42841, 42841>>, <<42843, 42843>>,
    <<42845, 42845>>, <<42847, 42847>>, <<42849, 42849>>, <<42851, 42851>>,
    <<42853, 42853>>, <<42855, 42855>>, <<42857, 42857>>, <<42859, 42859>>,
    <<42861, 42861>>, <<42863, 42872>>, <<42874, 42874>>, <<42876, 42876>>,
    <<42879, 42879>>, <<42881, 42881>>, <<42883, 42883>>, <<42885, 42885>>,
    <<42887, 42887>>, <<42892, 42892>>, <<42894, 42894>>, <<42897, 42897>>,
    <<42899, 42901>>, <<42903, 42903>>, <<42905, 42905>>, <<42907, 42907>>,
    <<42909, 42909>>, <<42911, 42911>>, <<42913, 42913>>, <<42915, 42915>>,
    <<42917, 42917>>, <<42919, 42919>>, <<42921, 42921>>, <<42927, 42927>>,
    <<42933, 42933>>, <<42935, 42935>>, <<42937, 42937>>, <<42939, 42939>>,
    <<42941, 42941>>, <<42943, 42943>>, <<42945, 42945>>, <<42947, 42947>>,
    <<42952, 42952>>, <<42954, 42954>>, <<42961, 42961>>, <<42963, 42963>>,
    <<42965, 42965>>, <<42967, 42967>>, <<42969, 42969>>, <<42998, 42998>>,
    <<43000, 43002>>, <<43824, 43866>>, <<43868, 43880>>, <<43888, 43967>>,
    <<64256, 64262>>, <<64275, 64279>>, <<65345, 65370>>, <<66600, 66639>>,
    <<66776, 66811>>, <<66967, 66977>>, <<66979, 66993>>, <<66995, 67001>>,
    <<67003, 67004>>, <<67456, 67456>>, <<67459, 67461>>, <<67463, 67504>>,
    <<67506, 67514>>, <<68800, 68850>>, <<71872, 71903>>, <<93792, 93823>>,
    <<119834, 119859>>, <<119886, 119892>>, <<119894, 119911>>,
    <<119938, 119963>>, <<119990, 119993>>, <<119995, 119995>>,
    <<119997, 120003>>, <<120005, 120015>>, <<120042, 120067>>,
    <<120094, 120119>>, <<120146, 120171>>, <<120198, 120223>>,
    <<120250, 120275>>, <<120302, 120327>>, <<120354, 120379>>,
    <<120406, 120431>>, <<120458, 120485>>, <<120514, 120538>>,
    <<120540, 120545>>, <<120572, 120596>>, <<120598, 120603>>,
    <<120630, 120654>>, <<120656, 120661>>, <<120688, 120712>>,
    <<120714, 120719>>, <<120746, 120770>>, <<120772, 120777>>,
    <<120779, 120779>>, <<122624, 122633>>, <<122635, 122654>>,
    <<125218, 125251>>}
LowerChars == InRanges(LowerRanges)

\* titlecase characters: cased, neither upper nor lower
TitleRanges == {
    <<453, 453>>, <<456, 456>>, <<459, 459>>, <<498, 498>>, <<8072, 8079>>,
    <<8088, 8095>>, <<8104, 8111>>, <<8124, 8124>>, <<8140, 8140>>,
    <<8188, 8188>>}
TitleChars == InRanges(TitleRanges)

\* the class [A-Z] of the sentence pattern, line 42
CapitalAZ == 65..90

\* the class [.!?] of the sentence pattern, line 42
SentenceEnd == {46, 33, 63}

\* str.isupper(): a single character is tested alone; a longer string is
\* uppercase when it holds no lowercase or titlecase character and at least
\* one uppercase character
IsUpper(s) ==
    IF Len(s) = 1 THEN s[1] \in UpperChars
    ELSE /\ \A i \in 1..Len(s) : s[i] \notin LowerChars \cup TitleChars
         /\ \E i \in 1..Len(s) : s[i] \in UpperChars

Max(S) == CHOOSE m \in S : \A n \in S : n <= m

(***************************************************************************)
(* Line 36: content.replace('\r\n', '\n').replace('\r', '\n')              *)
(***************************************************************************)
RECURSIVE ReplaceCRLF(_)
ReplaceCRLF(s) ==
    IF s = <<>> THEN <<>>
    ELSE IF Len(s) >= 2 /\ s[1] = CR /\ s[2] = NL
         THEN <<NL>> \o ReplaceCRLF(SubSeq(s, 3, Len(s)))
         ELSE <<s[1]>> \o ReplaceCRLF(Tail(s))

ReplaceCR(s) == [i \in 1..Len(s) |-> IF s[i] = CR THEN NL ELSE s[i]]

NormalizeLineEndings(s) == ReplaceCR(ReplaceCRLF(s))

(***************************************************************************)
(* Line 39: re.sub(r'\n\s*\n\s*\n', '\n\n', content)                       *)
(* BlankRunEnd(s, i) is the last position of the match that starts at i,   *)
(* or 0 when the pattern does not match there.  Both \s* are greedy: the   *)
(* first takes the longest run that still lets the rest match, then the    *)
(* second does.                                                            *)
(***************************************************************************)
\* the pattern without its \s*: three adjacent newlines only
BlankRunEndAdjacent(s, i) ==
    IF i + 2 <= Len(s) /\ s[i] = NL /\ s[i + 1] = NL /\ s[i + 2] = NL
    THEN i + 2 ELSE 0

\* the pattern with lazy \s*?: the shortest match
BlankRunEndLazy(s, i) ==
    IF s[i] # NL THEN 0
    ELSE LET n == Len(s)
             Ends == {e \in (i + 2)..n :
                        /\ s[e] = NL
                        /\ \A k \in i..e : s[k] \in SpaceChars
                        /\ \E m \in (i + 1)..(e - 1) : s[m] = NL}
         IN IF Ends = {} THEN 0 ELSE CHOOSE e \in Ends : \A f \in Ends : e <= f

BlankRunEnd(s, i) ==
    IF s[i] # NL THEN 0
    ELSE LET n == Len(s)
             Fits(a, b) ==
                 /\ i + a + b + 2 <= n
                 /\ \A k \in 1..a : s[i + k] \in SpaceChars
                 /\ s[i + a + 1] = NL
                 /\ \A k \in 1..b : s[i + a + 1 + k] \in SpaceChars
                 /\ s[i + a + b + 2] = NL
             As == {a \in 0..n : \E b \in 0..n : Fits(a, b)}
         IN IF As = {} THEN 0
            ELSE LET a == Max(As)
                     b == Max({bb \in 0..n : Fits(a, bb)})
                 IN i + a + b + 2

\* re.sub scans left to right and resumes after each match
RECURSIVE CollapseFrom(_, _)
CollapseFrom(s, i) ==
    IF i > Len(s) THEN <<>>
    ELSE LET e == BlankRunEnd(s, i)
         IN IF e # 0 THEN <<NL, NL>> \o CollapseFrom(s, e + 1)
                     ELSE <<s[i]>> \o CollapseFrom(s, i + 1)

CollapseBlankLines(s) == CollapseFrom(s, 1)

\* lines 35-39, the spec's Normalizer
Normalizer(s) == CollapseBlankLines(NormalizeLineEndings(s))

(***************************************************************************)
(* Line 42: re.sub(r'(?<=[.!?])\s+(?=[A-Z])', '\n\n', content)             *)
(***************************************************************************)
SentenceGapEnd(s, i) ==
    IF i = 1 \/ s[i - 1] \notin SentenceEnd THEN 0
    ELSE LET n == Len(s)
             Ks == {k \in 1..n :
                      /\ i + k <= n
                      /\ \A j \in 0..(k - 1) : s[i + j] \in SpaceChars
                      /\ s[i + k] \in CapitalAZ}
         IN IF Ks = {} THEN 0 ELSE i + Max(Ks) - 1

RECURSIVE BreakFrom(_, _)
BreakFrom(s, i) ==
    IF i > Len(s) THEN <<>>
    ELSE LET e == SentenceGapEnd(s, i)
         IN IF e # 0 THEN <<NL, NL>> \o BreakFrom(s, e + 1)
                     ELSE <<s[i]>> \o BreakFrom(s, i + 1)

BreakSentences(s) == BreakFrom(s, 1)

(***************************************************************************)
(* Line 47: content.split()                                                *)
(***************************************************************************)
RECURSIVE SplitFrom(_, _, _)
SplitFrom(s, i, word) ==
    IF i > Len(s) THEN (IF word = <<>> THEN <<>> ELSE <<word>>)
    ELSE IF s[i] \in SpaceChars
         THEN (IF word = <<>> THEN <<>> ELSE <<word>>) \o SplitFrom(s, i + 1, <<>>)
         ELSE SplitFrom(s, i + 1, Append(word, s[i]))

\* content.split(' '): only the space separates, empty strings are kept
RECURSIVE SplitSpaceFrom(_, _, _)
SplitSpaceFrom(s, i, word) ==
    IF i > Len(s) THEN <<word>>
    ELSE IF s[i] = SP
         THEN <<word>> \o SplitSpaceFrom(s, i + 1, <<>>)
         ELSE SplitSpaceFrom(s, i + 1, Append(word, s[i]))

SplitOnSpace(s) == SplitSpaceFrom(s, 1, <<>>)

Split(s) == SplitFrom(s, 1, <<>>)

(***************************************************************************)
(* Lines 45-66: the proper-noun loop                                       *)
(***************************************************************************)
common_words == {
    <<84, 104, 101>>,              \* The
    <<65>>,                        \* A
    <<65, 110>>,                   \* An
    <<84, 104, 105, 115>>,         \* This
    <<84, 104, 97, 116>>,          \* That
    <<84, 104, 101, 115, 101>>,    \* These
    <<84, 104, 111, 115, 101>>,    \* Those
    <<73>>,                        \* I
    <<89, 111, 117>>,              \* You
    <<72, 101>>,                   \* He
    <<83, 104, 101>>,              \* She
    <<73, 116>>,                   \* It
    <<87, 101>>,                   \* We
    <<84, 104, 101, 121>>}         \* They

KeptByClean(c) == c \in WordChars \/ c \in SpaceChars

\* line 51: re.sub(r'[^\w\s]', '', word)
CleanWord(word) == SelectSeq(word, KeptByClean)

\* lines 58-62 without the acronym test of line 61
ShouldWikifyAcronyms(clean_word) ==
    /\ clean_word # <<>>
    /\ IsUpper(<<clean_word[1]>>)
    /\ clean_word \notin common_words
    /\ Len(clean_word) > 1

\* lines 58-62
ShouldWikify(clean_word) ==
    /\ clean_word # <<>>
    /\ IsUpper(<<clean_word[1]>>)
    /\ clean_word \notin common_words
    /\ ~IsUpper(clean_word)
    /\ Len(clean_word) > 1

\* lines 64-65
Wikified(word, clean_word) ==
    LET punctuation == SubSeq(word, Len(clean_word) + 1, Len(word))
    IN <<LB, LB>> \o clean_word \o <<RB, RB>> \o punctuation

\* one iteration of the loop, lines 49-66
ProcessWord(word) ==
    LET clean_word == CleanWord(word)
    IN IF ShouldWikify(clean_word) THEN Wikified(word, clean_word) ELSE word

ProcessWords(ws) == [i \in 1..Len(ws) |-> ProcessWord(ws[i])]

(***************************************************************************)
(* Lines 68-70: ' '.join(processed_words), then .strip()                   *)
(***************************************************************************)
RECURSIVE Join(_)
Join(ws) ==
    IF ws = <<>> THEN <<>>
    ELSE IF Len(ws) = 1 THEN ws[1]
         ELSE ws[1] \o <<SP>> \o Join(Tail(ws))

RECURSIVE LStrip(_)
LStrip(s) ==
    IF s # <<>> /\ s[1] \in SpaceChars THEN LStrip(Tail(s)) ELSE s

RECURSIVE RStrip(_)
RStrip(s) ==
    IF s # <<>> /\ s[Len(s)] \in SpaceChars
    THEN RStrip(SubSeq(s, 1, Len(s) - 1)) ELSE s

Strip(s) == RStrip(LStrip(s))

\* lines 33-70 as one function
process_supernote_content(s) ==
    Strip(Join(ProcessWords(Split(BreakSentences(Normalizer(s))))))

(***************************************************************************)
(* Inputs of SpecText: every string over Alphabet up to MaxLen, and the    *)
(* worked examples of the documentation                                    *)
(***************************************************************************)
\* 'I', 't', '.', ' ', '\n', '\r'
Alphabet == {73, 116, 46, SP, NL, CR}

\* 'I', 't', '.', ' ', '\n', then '\x0b', '\x1c' (whitespace outside ASCII's
\* five), 'E' and 'e' with acute accent, the titlecase digraph U+01C5,
\* superscript two, ARABIC-INDIC DIGIT THREE, '_' and '"'
WideAlphabet == {73, 116, 46, SP, NL, 11, 28, 201, 233, 453, 178, 1635, 95, 34}

RECURSIVE StringsOfLen(_, _)
StringsOfLen(n, chars) ==
    IF n = 0 THEN {<<>>}
    ELSE {Append(s, c) : s \in StringsOfLen(n - 1, chars), c \in chars}

Strings ==
    UNION ({StringsOfLen(n, Alphabet) : n \in 0..MaxLen}
           \cup {StringsOfLen(n, WideAlphabet) : n \in 0..MaxWideLen})

\* 'Hello world. Next sentence here.'
ExSentence == <<72, 101, 108, 108, 111, SP, 119, 111, 114, 108, 100, 46, SP, 78, 101, 120, 116, SP, 115, 101, 110, 116, 101, 110, 99, 101, SP, 104, 101, 114, 101, 46>>
\* 'The Quick Brown fox jumps.'
ExProper == <<84, 104, 101, SP, 81, 117, 105, 99, 107, SP, 66, 114, 111, 119, 110, SP, 102, 111, 120, SP, 106, 117, 109, 112, 115, 46>>
\* 'The [[Quick]] [[Brown]] fox jumps.'
ExProperOut == <<84, 104, 101, SP, LB, LB, 81, 117, 105, 99, 107, RB, RB, SP, LB, LB, 66, 114, 111, 119, 110, RB, RB, SP, 102, 111, 120, SP, 106, 117, 109, 112, 115, 46>>
\* 'NASA launched it.'
ExAcronym == <<78, 65, 83, 65, SP, 108, 97, 117, 110, 99, 104, 101, 100, SP, 105, 116, 46>>
\* 'I saw A sign.'
ExSingle == <<73, SP, 115, 97, 119, SP, 65, SP, 115, 105, 103, 110, 46>>
\* 'Paris, France.'
ExPunct == <<80, 97, 114, 105, 115, 44, SP, 70, 114, 97, 110, 99, 101, 46>>
\* '[[Paris]], [[France]].'
ExPunctOut == <<LB, LB, 80, 97, 114, 105, 115, RB, RB, 44, SP, LB, LB, 70, 114, 97, 110, 99, 101, RB, RB, 46>>
\* 'a\n\n\n\nb'
ExBlank == <<97, NL, NL, NL, NL, 98>>
\* 'a\n\nb'
ExBlankOut == <<97, NL, NL, 98>>
\* '"Paris" is R2.'
ExQuoted == <<34, 80, 97, 114, 105, 115, 34, SP, 105, 115, SP, 82, 50, 46>>
\* 'Dear Ann,\r\n\r\n\r\nHi.\rBye'
ExCRLF == <<68, 101, 97, 114, SP, 65, 110, 110, 44, CR, NL, CR, NL, CR, NL, 72, 105, 46, CR, 66, 121, 101>>
\* 'Caf\xe9 \xc9lan \xc9COLE A\xe9 A\u01c5 A\xb2b A\u0663b'
ExAccents == <<67, 97, 102, 233, SP, 201, 108, 97, 110, SP, 201, 67, 79, 76, 69, SP, 65, 233, SP, 65, 453, SP, 65, 178, 98, SP, 65, 1635, 98>>
\* '[[Caf\xe9]] [[\xc9lan]] \xc9COLE [[A\xe9]] [[A\u01c5]] [[A\xb2b]] [[A\u0663b]]'
ExAccentsOut == <<LB, LB, 67, 97, 102, 233, RB, RB, SP, LB, LB, 201, 108, 97, 110, RB, RB, SP, 201, 67, 79, 76, 69, SP, LB, LB, 65, 233, RB, RB, SP, LB, LB, 65, 453, RB, RB, SP, LB, LB, 65, 178, 98, RB, RB, SP, LB, LB, 65, 1635, 98, RB, RB>>
\* 'a\n\x0b\n\nb.\x0bB\x1cc\xa0d'
ExVerticalTab == <<97, NL, 11, NL, NL, 98, 46, 11, 66, 28, 99, 160, 100>>

Examples == {ExSentence, ExProper, ExAcronym, ExSingle, ExPunct, ExBlank,
             ExQuoted, ExCRLF, ExAccents, ExVerticalTab}

Inputs == Strings \cup Examples

(***************************************************************************)
(* config.py                                                               *)
(***************************************************************************)
\* '/Users/alexhoward/Library/CloudStorage/OneDrive-Personal/Apps/remotely-save/Obsidian Vault/Admin/Templates/Daily Note Template.md'
TEMPLATE_PATH ==
    <<47, 85, 115, 101, 114, 115, 47, 97, 108, 101, 120, 104, 111, 119, 97,
    114, 100, 47, 76, 105, 98, 114, 97, 114, 121, 47, 67, 108, 111, 117, 100,
    83, 116, 111, 114, 97, 103, 101, 47, 79, 110, 101, 68, 114, 105, 118,
    101, 45, 80, 101, 114, 115, 111, 110, 97, 108, 47, 65, 112, 112, 115, 47,
    114, 101, 109, 111, 116, 101, 108, 121, 45, 115, 97, 118, 101, 47, 79,
    98, 115, 105, 100, 105, 97, 110, 32, 86, 97, 117, 108, 116, 47, 65, 100,
    109, 105, 110, 47, 84, 101, 109, 112, 108, 97, 116, 101, 115, 47, 68, 97,
    105, 108, 121, 32, 78, 111, 116, 101, 32, 84, 101, 109, 112, 108, 97,
    116, 101, 46, 109, 100>>
\* 'Supernote Exports'
EXPORT_FOLDER == <<83, 117, 112, 101, 114, 110, 111, 116, 101, 32, 69, 120, 112, 111, 114, 116, 115>>
\* 'Daily Notes'
DAILY_NOTES_FOLDER == <<68, 97, 105, 108, 121, 32, 78, 111, 116, 101, 115>>
\* 'Notes'
NOTE_SECTION_HEADING == <<78, 111, 116, 101, 115>>
\* ('.txt',)
VALID_EXTENSIONS == {<<46, 116, 120, 116>>}
\* '.processed'
PROCESSED_SUFFIX == <<46, 112, 114, 111, 99, 101, 115, 115, 101, 100>>

\* str.endswith
EndsWith(s, suffix) ==
    /\ Len(s) >= Len(suffix)
    /\ SubSeq(s, Len(s) - Len(suffix) + 1, Len(s)) = suffix

\* the filter of main's loop, lines 141-142
Eligible(filename) ==
    /\ \E ext \in VALID_EXTENSIONS : EndsWith(filename, ext)
    /\ ~EndsWith(filename, PROCESSED_SUFFIX)

\* line 143: os.path.join(config.EXPORT_FOLDER, filename)
FilePath(filename) == EXPORT_FOLDER \o <<47>> \o filename

(***************************************************************************)
(* The export folder, the clock and the vault a run starts from            *)
(***************************************************************************)
\* 'a.txt', 'b.txt', 'n.md', 'c.txt.processed'
FileA == <<97, 46, 116, 120, 116>>
FileB == <<98, 46, 116, 120, 116>>
FileNotes == <<110, 46, 109, 100>>
FileDone == <<99, 46, 116, 120, 116>> \o PROCESSED_SUFFIX

FileNames == {FileA, FileB, FileNotes, FileDone}

\* what f.read() returns for each export file
FileContent(file_path) ==
    IF file_path = FilePath(FileA) THEN ExPunct
    ELSE IF file_path = FilePath(FileB) THEN ExSentence
    ELSE ExBlank

Days == 1..MaxDay

\* the values datetime.now() takes: two moments of each day of October 2026
Clock ==
    {[year |-> 2026, month |-> 10, day |-> d, hour |-> t[1], minute |-> t[2]] :
        d \in Days, t \in {<<0, 5>>, <<23, 59>>}}

\* a number as decimal digits, zero-padded to `width`
RECURSIVE Digits(_, _)
Digits(n, width) ==
    IF width = 0 THEN <<>>
    ELSE Append(Digits(n \div 10, width - 1), 48 + (n % 10))

\* date.strftime('%Y-%m-%d'), lines 74 and 86
StrfDate(dt) ==
    Digits(dt.year, 4) \o <<45>> \o Digits(dt.month, 2) \o <<45>> \o Digits(dt.day, 2)

\* date.strftime('%H:%M'), line 88
StrfTime(dt) == Digits(dt.hour, 2) \o <<58>> \o Digits(dt.minute, 2)

\* f"{config.DAILY_NOTES_FOLDER}/{date.strftime('%Y-%m-%d')}.md", line 74
DailyNotePath(dt) == DAILY_NOTES_FOLDER \o <<47>> \o StrfDate(dt) \o <<46, 109, 100>>

NotePaths == {DailyNotePath(dt) : dt \in Clock}

\* str.replace(old, new): every occurrence, left to right, not overlapping
RECURSIVE ReplaceAll(_, _, _)
ReplaceAll(s, old, new) ==
    IF Len(s) < Len(old) THEN s
    ELSE IF SubSeq(s, 1, Len(old)) = old
         THEN new \o ReplaceAll(SubSeq(s, Len(old) + 1, Len(s)), old, new)
         ELSE <<s[1]>> \o ReplaceAll(Tail(s), old, new)

\* lines 85-89: the template with "{{date}}" and "{{time}}" replaced
NoteContent(template, dt) ==
    ReplaceAll(ReplaceAll(template, <<123, 123, 100, 97, 116, 101, 125, 125>>, StrfDate(dt)),
               <<123, 123, 116, 105, 109, 101, 125, 125>>, StrfTime(dt))

\* importer.template_content: None, or the text load_template stored
NoTemplate == [is_none |-> TRUE, text |-> <<>>]
Template(text) == [is_none |-> FALSE, text |-> text]

\* 'T {{date}} {{time}}'
TemplateText == <<84, 32, 123, 123, 100, 97, 116, 101, 125, 125, 32, 123, 123, 116, 105, 109, 101, 125, 125>>

\* the test of line 81 always passing
TemplateAssumed(template) == TRUE

\* line 81 reads `not self.template_content`: None and '' are both false
TemplateLoaded(template) == ~template.is_none /\ template.text # <<>>

\* one piece of text written to a note: what wrote it, and the text
Written(kind, body) == [kind |-> kind, body |-> body]

NoNote == [exists |-> FALSE, text |-> <<>>]

\* how a call ends: it returns, raises an Exception, or raises a
\* BaseException that is no Exception (asyncio.CancelledError,
\* KeyboardInterrupt, SystemExit)
Outcomes == {"ok", "Exception", "BaseException"}
Raises == {"Exception", "BaseException"}

\* what ended main(): the kind of exception and the line that raised it
NoEscape == [exc |-> "none", line |-> 0]
Raised(exc, line) == [exc |-> exc, line |-> line]

\* `date` of main() is not bound before line 145 assigns it
Unbound == [year |-> 0, month |-> 0, day |-> 0, hour |-> 0, minute |-> 0]

(***************************************************************************)
(* main(), lines 132-146, and the methods it calls, one action per await   *)
(* or file-system call.                                                    *)
(***************************************************************************)
Init ==
    /\ input = <<>>
    /\ content = <<>>
    /\ words = <<>>
    /\ tpc = "idle"
    /\ pc = "start"
    /\ escaped = NoEscape
    /\ session = "none"
    /\ template_content = NoTemplate
    /\ folder \in SUBSET FileNames
    /\ listing = {}
    /\ todo = {}
    /\ cur = <<>>
    /\ date = Unbound
    /\ processed_content = <<>>
    /\ vault \in [NotePaths ->
                    {NoNote, [exists |-> TRUE, text |-> <<Written("old", <<>>)>>]}]
    /\ calls = <<>>
    /\ handed = {}
    /\ opened = {}
    /\ renamed = {}
    /\ printed = {}

\* a call to the note service as the service sees it
Call(op, path, outcome, by, text) ==
    [op |-> op, path |-> path, ok |-> outcome = "ok", outcome |-> outcome,
     by |-> by, text |-> text]

\* main with the exception of connect() swallowed
AfterConnectSwallowed(ok) == "connected"

\* line 134: `await importer.connect()` stands outside any try
AfterConnect(ok) == IF ok THEN "connected" ELSE "aborted"

\* connect(), lines 18-25: `await stdio_client(...)`; when it raises,
\* session stays None; otherwise line 25 stores the new ClientSession
ConnectTransport ==
    /\ pc = "start"
    /\ \E outcome \in Outcomes :
         IF outcome = "ok"
         THEN /\ session' = "created"
              /\ pc' = "initialize"
              /\ UNCHANGED escaped
         ELSE /\ pc' = AfterConnect(FALSE)
              /\ escaped' = IF AfterConnect(FALSE) = "aborted"
                            THEN Raised(outcome, 24) ELSE escaped
              /\ UNCHANGED session
    /\ UNCHANGED <<template_content, folder, listing, todo, cur, date,
                   processed_content, vault, calls, handed, opened, renamed,
                   printed>>
    /\ UNCHANGED tvars

\* connect(), line 26: `await self.session.initialize()`
InitializeSession ==
    /\ pc = "initialize"
    /\ \E outcome \in Outcomes :
         /\ session' = IF outcome = "ok" THEN "initialized" ELSE session
         /\ pc' = AfterConnect(outcome = "ok")
         /\ escaped' = IF AfterConnect(outcome = "ok") = "aborted"
                       THEN Raised(outcome, 26) ELSE escaped
    /\ UNCHANGED <<template_content, folder, listing, todo, cur, date,
                   processed_content, vault, calls, handed, opened, renamed,
                   printed>>
    /\ UNCHANGED tvars

\* load_template(), lines 28-31, called at line 137 outside any try.  With
\* session None the attribute access raises before any call is issued.
LoadTemplate ==
    /\ pc = "connected"
    /\ IF session = "none"
       THEN /\ pc' = "aborted"
            /\ escaped' = Raised("Exception", 30)
            /\ UNCHANGED <<template_content, calls>>
       ELSE \E outcome \in Outcomes, response \in {<<>>, TemplateText} :
              /\ calls' = Append(calls, Call("get_file_contents", TEMPLATE_PATH,
                                             outcome, <<>>, <<>>))
              /\ IF outcome = "ok"
                 THEN /\ pc' = "loaded"
                      /\ template_content' = Template(response)
                      /\ UNCHANGED escaped
                 ELSE /\ pc' = "aborted"
                      /\ escaped' = Raised(outcome, 30)
                      /\ UNCHANGED template_content
    /\ UNCHANGED <<session, folder, listing, todo, cur, date,
                   processed_content, vault, handed, opened, renamed, printed>>
    /\ UNCHANGED tvars

\* line 140: os.listdir(config.EXPORT_FOLDER), evaluated once
ListDir ==
    /\ pc = "loaded"
    /\ \E outcome \in Outcomes :
         IF outcome = "ok"
         THEN /\ listing' = folder
              /\ todo' = folder
              /\ pc' = "loop"
              /\ UNCHANGED escaped
         ELSE /\ pc' = "aborted"
              /\ escaped' = Raised(outcome, 140)
              /\ UNCHANGED <<listing, todo>>
    /\ UNCHANGED <<session, template_content, folder, cur, date,
                   processed_content, vault, calls, handed, opened, renamed,
                   printed>>
    /\ UNCHANGED tvars

\* lines 140-142 with a filename that fails the filter
SkipFile ==
    /\ pc = "loop"
    /\ \E filename \in todo :
         /\ ~Eligible(filename)
         /\ todo' = todo \ {filename}
    /\ UNCHANGED <<pc, escaped, session, template_content, folder, listing,
                   cur, date, processed_content, vault, calls, handed, opened,
                   renamed, printed>>
    /\ UNCHANGED tvars

\* lines 140-146 with a filename that passes: date = datetime.now(), then
\* process_supernote_file(file_path, date) is entered
NextFile ==
    /\ pc = "loop"
    /\ \E filename \in todo :
         /\ Eligible(filename)
         /\ todo' = todo \ {filename}
         /\ cur' = FilePath(filename)
         /\ handed' = handed \cup {FilePath(filename)}
    /\ \E now \in Clock : date' = now
    /\ pc' = "read"
    /\ UNCHANGED <<escaped, session, template_content, folder, listing,
                   processed_content, vault, calls, opened, renamed, printed>>
    /\ UNCHANGED tvars

\* process_supernote_file with no except clause
FileErrorEscapes == "aborted"

\* lines 129-130: `except Exception` prints and returns, main's loop goes on
FileErrorPc == "loop"

Report(kind) == [file |-> cur, kind |-> kind]

\* a BaseException that is no Exception, raised at `line`, passes the
\* except clauses of lines 79, 107 and 129 and leaves main()
Escapes(line) ==
    /\ pc' = "aborted"
    /\ escaped' = Raised("BaseException", line)
    /\ UNCHANGED printed

\* an Exception raised at `line` inside the try of lines 112-128: the
\* handler of lines 129-130 prints it, and the print can itself raise
Caught(line) ==
    IF FileErrorPc = "aborted"
    THEN /\ pc' = "aborted"
         /\ escaped' = Raised("Exception", line)
         /\ UNCHANGED printed
    ELSE \E printing \in Outcomes :
           IF printing = "ok"
           THEN /\ printed' = printed \cup {Report("processing")}
                /\ pc' = FileErrorPc
                /\ UNCHANGED escaped
           ELSE /\ pc' = "aborted"
                /\ escaped' = Raised(printing, 130)
                /\ UNCHANGED printed

\* the name in the export folder that file_path was joined from
FileName(file_path) == CHOOSE filename \in listing : FilePath(filename) = file_path

\* lines 113-118: open, read, process_supernote_content
ReadAndProcess ==
    /\ pc = "read"
    /\ \E outcome \in (IF FileName(cur) \in folder THEN Outcomes ELSE Raises) :
         CASE outcome = "ok" ->
                /\ opened' = opened \cup {cur}
                /\ processed_content' = process_supernote_content(FileContent(cur))
                /\ pc' = "ensure"
                /\ UNCHANGED <<printed, escaped>>
           [] outcome = "Exception" ->
                /\ Caught(114)
                /\ UNCHANGED <<opened, processed_content>>
           [] OTHER ->
                /\ Escapes(114)
                /\ UNCHANGED <<opened, processed_content>>
    /\ UNCHANGED <<session, template_content, folder, listing, todo, cur, date,
                   vault, calls, handed, renamed>>
    /\ UNCHANGED tvars

\* ensure_daily_note_exists, lines 74-79: the existence check.  An Exception
\* is taken to mean the note is missing; a BaseException is not caught.
CheckDailyNote ==
    /\ pc = "ensure"
    /\ \E outcome \in (IF vault[DailyNotePath(date)].exists
                       THEN Outcomes ELSE Raises) :
         /\ calls' = Append(calls, Call("get_file_contents", DailyNotePath(date),
                                        outcome, cur, <<>>))
         /\ CASE outcome = "ok" ->
                   /\ pc' = "add"
                   /\ UNCHANGED <<printed, escaped>>
              [] outcome = "Exception" ->
                   /\ pc' = "create"
                   /\ UNCHANGED <<printed, escaped>>
              [] OTHER -> Escapes(78)
    /\ UNCHANGED <<session, template_content, folder, listing, todo, cur, date,
                   processed_content, vault, handed, opened, renamed>>
    /\ UNCHANGED tvars

\* ensure_daily_note_exists, lines 80-92: ValueError without a template,
\* otherwise append_content with the filled-in template
CreateDailyNote ==
    /\ pc = "create"
    /\ IF ~TemplateLoaded(template_content)
       THEN /\ Caught(82)
            /\ UNCHANGED <<calls, vault>>
       ELSE \E outcome \in Outcomes :
              LET note_content == NoteContent(template_content.text, date)
                  path == DailyNotePath(date)
              IN /\ calls' = Append(calls, Call("append_content", path, outcome,
                                                cur, note_content))
                 /\ CASE outcome = "ok" ->
                           /\ vault' = [vault EXCEPT ![path] =
                                 [exists |-> TRUE,
                                  text |-> Append(@.text,
                                             Written("template", note_content))]]
                           /\ pc' = "add"
                           /\ UNCHANGED <<printed, escaped>>
                      [] outcome = "Exception" ->
                           /\ Caught(92)
                           /\ UNCHANGED vault
                      [] OTHER ->
                           /\ Escapes(92)
                           /\ UNCHANGED vault
    /\ UNCHANGED <<session, template_content, folder, listing, todo, cur, date,
                   processed_content, handed, opened, renamed>>
    /\ UNCHANGED tvars

\* the patch_content call of lines 100-106
PatchCall(path, outcome, by, text) ==
    [op |-> "patch_content", path |-> path, ok |-> outcome = "ok",
     outcome |-> outcome, by |-> by, text |-> text,
     target_type |-> "heading", target |-> NOTE_SECTION_HEADING,
     operation |-> "append"]

\* add_to_daily_note, lines 96-108, called at line 124: an Exception is
\* printed and not raised again, a BaseException is not caught; an error of
\* the print of line 108 leaves the method
AddToDailyNote ==
    /\ pc = "add"
    /\ \E outcome \in (IF vault[DailyNotePath(date)].exists
                       THEN Outcomes ELSE Raises) :
         LET text == <<NL>> \o processed_content \o <<NL>>
             path == DailyNotePath(date)
         IN /\ calls' = Append(calls, PatchCall(path, outcome, cur, text))
            /\ CASE outcome = "ok" ->
                      /\ vault' = [vault EXCEPT ![path].text =
                                     Append(@, Written("patch", text))]
                      /\ pc' = "rename"
                      /\ UNCHANGED <<printed, escaped>>
                 [] outcome = "Exception" ->
                      /\ \E printing \in Outcomes :
                           CASE printing = "ok" ->
                                  /\ printed' = printed \cup {Report("adding")}
                                  /\ pc' = "rename"
                                  /\ UNCHANGED escaped
                             [] printing = "Exception" -> Caught(108)
                             [] OTHER -> Escapes(108)
                      /\ UNCHANGED vault
                 [] OTHER ->
                      /\ Escapes(100)
                      /\ UNCHANGED vault
    /\ UNCHANGED <<session, template_content, folder, listing, todo, cur, date,
                   processed_content, handed, opened, renamed>>
    /\ UNCHANGED tvars

\* line 127: os.rename(file_path, file_path + config.PROCESSED_SUFFIX)
MarkProcessed ==
    /\ pc = "rename"
    /\ \E outcome \in (IF FileName(cur) \in folder THEN Outcomes ELSE Raises) :
         CASE outcome = "ok" ->
                /\ folder' = (folder \ {FileName(cur)})
                                \cup {FileName(cur) \o PROCESSED_SUFFIX}
                /\ renamed' = renamed \cup {cur}
                /\ pc' = "loop"
                /\ UNCHANGED <<printed, escaped>>
           [] outcome = "Exception" ->
                /\ Caught(127)
                /\ UNCHANGED <<folder, renamed>>
           [] OTHER ->
                /\ Escapes(127)
                /\ UNCHANGED <<folder, renamed>>
    /\ UNCHANGED <<session, template_content, listing, todo, cur, date,
                   processed_content, vault, calls, handed, opened>>
    /\ UNCHANGED tvars

\* the loop of line 140 is exhausted and main returns
Finish ==
    /\ pc = "loop"
    /\ todo = {}
    /\ pc' = "done"
    /\ UNCHANGED <<escaped, session, template_content, folder, listing, todo,
                   cur, date, processed_content, vault, calls, handed, opened,
                   renamed, printed>>
    /\ UNCHANGED tvars

Next ==
    \/ ConnectTransport
    \/ InitializeSession
    \/ LoadTemplate
    \/ ListDir
    \/ SkipFile
    \/ NextFile
    \/ ReadAndProcess
    \/ CheckDailyNote
    \/ CreateDailyNote
    \/ AddToDailyNote
    \/ MarkProcessed
    \/ Finish

Spec == Init /\ [][Next]_vars

\* the orchestration at rest, while SpecText runs the pipeline alone
OrchIdle ==
    /\ pc = "idle"
    /\ escaped = NoEscape
    /\ session = "none"
    /\ template_content = NoTemplate
    /\ folder = {}
    /\ listing = {}
    /\ todo = {}
    /\ cur = <<>>
    /\ date = Unbound
    /\ processed_content = <<>>
    /\ vault = [p \in NotePaths |-> NoNote]
    /\ calls = <<>>
    /\ handed = {}
    /\ opened = {}
    /\ renamed = {}
    /\ printed = {}

(***************************************************************************)
(* SpecText: process_supernote_content, one action per pass                *)
(***************************************************************************)
InitText ==
    /\ input \in Inputs
    /\ content = input
    /\ words = <<>>
    /\ tpc = "line_endings"
    /\ OrchIdle

DoLineEndings ==
    /\ tpc = "line_endings"
    /\ content' = NormalizeLineEndings(content)
    /\ tpc' = "blank_lines"
    /\ UNCHANGED <<input, words>>
    /\ UNCHANGED ovars

DoBlankLines ==
    /\ tpc = "blank_lines"
    /\ content' = CollapseBlankLines(content)
    /\ tpc' = "sentences"
    /\ UNCHANGED <<input, words>>
    /\ UNCHANGED ovars

DoSentences ==
    /\ tpc = "sentences"
    /\ content' = BreakSentences(content)
    /\ tpc' = "split"
    /\ UNCHANGED <<input, words>>
    /\ UNCHANGED ovars

DoSplit ==
    /\ tpc = "split"
    /\ words' = Split(content)
    /\ tpc' = "wikify"
    /\ UNCHANGED <<input, content>>
    /\ UNCHANGED ovars

DoWikify ==
    /\ tpc = "wikify"
    /\ words' = ProcessWords(words)
    /\ tpc' = "join"
    /\ UNCHANGED <<input, content>>
    /\ UNCHANGED ovars

DoJoin ==
    /\ tpc = "join"
    /\ content' = Strip(Join(words))
    /\ tpc' = "returned"
    /\ UNCHANGED <<input, words>>
    /\ UNCHANGED ovars

NextText ==
    \/ DoLineEndings
    \/ DoBlankLines
    \/ DoSentences
    \/ DoSplit
    \/ DoWikify
    \/ DoJoin

SpecText == InitText /\ [][NextText]_vars

(***************************************************************************)
(* Properties of the pipeline (checked under SpecText)                     *)
(***************************************************************************)
Newlines(s) == Cardinality({i \in 1..Len(s) : s[i] = NL})

\* the maximal runs of whitespace of s, in order
RECURSIVE RunsFrom(_, _, _)
RunsFrom(s, i, run) ==
    IF i > Len(s) THEN (IF run = <<>> THEN <<>> ELSE <<run>>)
    ELSE IF s[i] \in SpaceChars
         THEN RunsFrom(s, i + 1, Append(run, s[i]))
         ELSE (IF run = <<>> THEN <<>> ELSE <<run>>) \o RunsFrom(s, i + 1, <<>>)

SpaceRuns(s) == RunsFrom(s, 1, <<>>)

StartsWith(s, p) == Len(s) >= Len(p) /\ SubSeq(s, 1, Len(p)) = p

\* a sentence end, whitespace, then a capital A-Z: the place line 42 rewrites
HasSentenceGap(s) ==
    \E i, j \in 1..Len(s) :
        /\ i + 1 < j
        /\ s[i] \in SentenceEnd
        /\ \A k \in (i + 1)..(j - 1) : s[k] \in SpaceChars
        /\ s[j] \in CapitalAZ

\* a sentence end directly followed by two newlines
HasBreakAfterSentenceEnd(s) ==
    \E i \in 1..Len(s) :
        /\ i + 2 <= Len(s)
        /\ s[i] \in SentenceEnd
        /\ s[i + 1] = NL
        /\ s[i + 2] = NL

\* C1 (as claimed): whenever the input has a sentence end followed by
\* whitespace and a capital, the text process_supernote_content returns has
\* a paragraph break (two newlines) after a sentence end.
C1_BreakSurvives ==
    (tpc = "returned" /\ HasSentenceGap(input))
        => HasBreakAfterSentenceEnd(content)

\* the stoplist as the documentation gives it
Stoplist == {
    <<84, 104, 101>>,              \* The
    <<65>>,                        \* A
    <<65, 110>>,                   \* An
    <<84, 104, 105, 115>>,         \* This
    <<84, 104, 97, 116>>,          \* That
    <<84, 104, 101, 115, 101>>,    \* These
    <<84, 104, 111, 115, 101>>,    \* Those
    <<73>>,                        \* I
    <<89, 111, 117>>,              \* You
    <<72, 101>>,                   \* He
    <<83, 104, 101>>,              \* She
    <<73, 116>>,                   \* It
    <<87, 101>>,                   \* We
    <<84, 104, 101, 121>>}         \* They

\* the five conditions; "entirely uppercase" is read as str.isupper() reads
\* it: no lowercase letter (digits and underscores do not count)
FiveConditions(c) ==
    /\ c # <<>>
    /\ c[1] \in UpperChars
    /\ c \notin Stoplist
    /\ \E k \in 1..Len(c) : c[k] \in LowerChars \cup TitleChars
    /\ Len(c) > 1

Bracketed(c) == <<LB, LB>> \o c \o <<RB, RB>>

\* C2: after the proper-noun loop there is one output token per
\* whitespace-delimited token of the input; it begins with the bracketed
\* clean word if and only if the clean word meets all five conditions, and
\* is the token itself otherwise.  The documented examples come out as
\* documented.
C2_WrapIffFiveConditions ==
    /\ tpc \in {"join", "returned"} =>
         LET toks == Split(input)
         IN /\ Len(words) = Len(toks)
            /\ \A i \in 1..Len(toks) :
                 LET c == CleanWord(toks[i])
                 IN /\ StartsWith(words[i], Bracketed(c)) <=> FiveConditions(c)
                    /\ ~FiveConditions(c) => words[i] = toks[i]
    /\ (tpc = "returned" /\ input = ExProper) => content = ExProperOut
    /\ (tpc = "returned" /\ input = ExAcronym) => content = ExAcronym
    /\ (tpc = "returned" /\ input = ExSingle) => content = ExSingle
    /\ (tpc = "returned" /\ input = ExAccents) => content = ExAccentsOut

C2_Witness ==
    /\ tpc = "returned"
    /\ input = ExProper
    /\ content = ExProperOut

\* the punctuation that trails the word: the longest suffix of the token
\* holding no word character
RECURSIVE TrailingPunctuation(_)
TrailingPunctuation(w) ==
    IF w = <<>> \/ w[Len(w)] \in WordChars THEN <<>>
    ELSE Append(TrailingPunctuation(SubSeq(w, 1, Len(w) - 1)), w[Len(w)])

\* C3 (as claimed): every wrapped token is the bracketed clean word followed
\* by exactly the punctuation that trailed the word in the original token.
C3_PunctuationPreserved ==
    tpc \in {"join", "returned"} =>
        LET toks == Split(input)
        IN \A i \in 1..Len(toks) :
             LET c == CleanWord(toks[i])
             IN FiveConditions(c) =>
                  words[i] = Bracketed(c) \o TrailingPunctuation(toks[i])

\* no three newlines separated only by whitespace
NoBlankRun(s) ==
    ~\E i, j, k \in 1..Len(s) :
        /\ i < j
        /\ j < k
        /\ s[i] = NL
        /\ s[j] = NL
        /\ s[k] = NL
        /\ \A m \in i..k : s[m] \in SpaceChars

\* C4: the Normalizer's output has no run of three or more newlines
\* separated only by whitespace; the words are untouched, every whitespace
\* run that held three or more newlines now holds exactly two newlines (one
\* blank line) and every other run is as it was; "a\n\n\n\nb" gives "a\n\nb".
C4_BlankLinesCollapsed ==
    tpc = "sentences" =>
        LET before == SpaceRuns(NormalizeLineEndings(input))
            after == SpaceRuns(content)
        IN /\ NoBlankRun(content)
           /\ Split(content) = Split(input)
           /\ Len(after) = Len(before)
           /\ \A r \in 1..Len(before) :
                IF Newlines(before[r]) >= 3
                THEN Newlines(after[r]) = 2
                ELSE after[r] = before[r]
           /\ input = ExBlank => content = ExBlankOut

C4_Witness ==
    /\ tpc = "sentences"
    /\ input = ExBlank
    /\ content = ExBlankOut

\* C5: the Normalizer is idempotent: normalizing its own output changes
\* nothing.
C5_NormalizerIdempotent ==
    tpc = "sentences" => Normalizer(content) = content

C5_Witness ==
    /\ tpc = "sentences"
    /\ content # input
    /\ \E r \in 1..Len(SpaceRuns(input)) : Newlines(SpaceRuns(input)[r]) >= 3
    /\ \E i \in 1..Len(input) : input[i] = CR

\* C6: the returned text has no leading or trailing whitespace, its only
\* whitespace characters are single spaces, each between two tokens, and
\* those tokens are the processed words.
C6_SingleSpaced ==
    tpc = "returned" =>
        /\ content # <<>> => /\ content[1] \notin SpaceChars
                             /\ content[Len(content)] \notin SpaceChars
        /\ \A i \in 1..Len(content) :
             content[i] \in SpaceChars =>
                 /\ content[i] = SP
                 /\ i + 1 <= Len(content) => content[i + 1] \notin SpaceChars
        /\ Split(content) = words
        /\ Len(SpaceRuns(content)) = (IF words = <<>> THEN 0 ELSE Len(words) - 1)

C6_Witness ==
    /\ tpc = "returned"
    /\ Len(words) >= 2
    /\ input[1] \in SpaceChars
    /\ input[Len(input)] \in SpaceChars
    /\ \E i \in 1..Len(input) : input[i] = NL

(***************************************************************************)
(* Properties of a run of main() (checked under Spec)                      *)
(***************************************************************************)
CallsOf(file, op) ==
    {i \in 1..Len(calls) : calls[i].by = file /\ calls[i].op = op}

\* C7 (as claimed): no failure inside one file's processing ends the run:
\* main is never aborted once a file was handed to process_supernote_file.
C7_NothingEscapes ==
    pc = "aborted" => handed = {}

\* process_supernote_file(f, date) has returned to main's loop
Finished(f) ==
    /\ f \in handed
    /\ cur # f \/ pc \in {"loop", "done"}

\* C7 (amended): a failure inside one file's processing that raises an
\* Exception is reported and does not end the run: when main returns, every
\* eligible entry of the listing was handed to process_supernote_file; once
\* a file was handed over, main is aborted only by a BaseException that is
\* no Exception (a cancellation or an interrupt) or by an error of the
\* reporting print of line 130 itself; every file whose processing returned
\* to the loop without the rename (its read, the creation of the note or
\* the rename failed) has its "Error processing" report printed; and every
\* patch that raised an Exception has a report printed for its file once
\* the file's processing has returned.
C7_FileFailuresNonFatal ==
    /\ pc = "done" => \A f \in listing : Eligible(f) => FilePath(f) \in handed
    /\ (pc = "aborted" /\ handed # {}) =>
           \/ escaped.exc = "BaseException"
           \/ escaped.line = 130
    /\ \A f \in handed :
         (Finished(f) /\ f \notin renamed)
             => [file |-> f, kind |-> "processing"] \in printed
    /\ \A i \in 1..Len(calls) :
         (/\ calls[i].op = "patch_content"
          /\ calls[i].outcome = "Exception"
          /\ Finished(calls[i].by))
             => \E r \in printed : r.file = calls[i].by

C7_Witness ==
    /\ pc = "done"
    /\ \E i, j \in 1..Len(calls) :
         /\ i < j
         /\ calls[i].op = "patch_content"
         /\ calls[i].outcome = "Exception"
         /\ calls[j].by # calls[i].by
         /\ calls[j].op = "patch_content"
         /\ calls[j].ok
    /\ \E r \in printed : r.kind = "adding"

\* a run in which the first file could not be read, was reported, and the
\* second file was handed over and renamed
C7_ReadFailureWitness ==
    /\ pc = "done"
    /\ \E f \in handed :
         /\ f \notin opened
         /\ [file |-> f, kind |-> "processing"] \in printed
    /\ renamed # {}

TemplateEntries(text) ==
    {k \in 1..Len(text) : text[k].kind = "template"}

\* C8: per file, a patch_content is issued only after the existence check
\* succeeded or, the check having failed, after a successful append_content
\* created the note; a successful check is followed by no creation call and
\* a note gains a template only through a successful creation call, whose
\* text is the template with its placeholders filled in; a check that
\* raised an Exception with a template loaded is followed by the creation
\* call before anything else is asked of the service for that file; a
\* failed check with no template loaded is followed by no creation and no
\* patch for that file.
C8_CreateBeforePatch ==
    /\ \A f \in handed :
         LET gets == CallsOf(f, "get_file_contents")
             apps == CallsOf(f, "append_content")
             pats == CallsOf(f, "patch_content")
             loaded == ~template_content.is_none /\ template_content.text # <<>>
         IN /\ \A p \in pats :
                 \E g \in gets :
                     /\ g < p
                     /\ \/ calls[g].ok
                        \/ \E a \in apps : g < a /\ a < p /\ calls[a].ok
            /\ \A g \in gets : calls[g].ok => apps = {}
            /\ \A g \in gets :
                 (calls[g].outcome = "Exception" /\ loaded)
                     => \/ (g + 1) \in apps
                        \/ (g = Len(calls) /\ pc = "create" /\ cur = f)
            /\ \A g \in gets :
                 (~calls[g].ok /\ ~loaded) => (apps = {} /\ pats = {})
            /\ \A g \in gets :
                 calls[g].outcome = "BaseException" => (apps = {} /\ pats = {})
            /\ \A a \in apps :
                 /\ calls[a].path = calls[a - 1].path
                 /\ calls[a].text # <<>>
                 /\ \A placeholder \in {<<123, 123, 100, 97, 116, 101, 125, 125>>, <<123, 123, 116, 105, 109, 101, 125, 125>>} :
                      ReplaceAll(calls[a].text, placeholder, <<>>) = calls[a].text
    /\ \A p \in NotePaths :
         Cardinality(TemplateEntries(vault[p].text)) =
         Cardinality({i \in 1..Len(calls) :
                        /\ calls[i].op = "append_content"
                        /\ calls[i].path = p
                        /\ calls[i].ok})

C8_Witness ==
    \E i \in 1..Len(calls) :
        /\ i + 2 <= Len(calls)
        /\ calls[i].op = "get_file_contents"
        /\ calls[i].by \in handed
        /\ calls[i].outcome = "Exception"
        /\ calls[i + 1].op = "append_content"
        /\ calls[i + 1].ok
        /\ calls[i + 2].op = "patch_content"
        /\ calls[i + 2].ok
        /\ calls[i + 2].by = calls[i].by

\* C9: while the session is not initialized main has not gone past connect,
\* and nothing was done: no call to the note service, no file read, handed
\* over or renamed, no note created.
C9_SessionFailureFatal ==
    session # "initialized" =>
        /\ pc \in {"start", "initialize", "aborted"}
        /\ calls = <<>>
        /\ opened = {}
        /\ handed = {}
        /\ renamed = {}
        /\ \A p \in NotePaths : TemplateEntries(vault[p].text) = {}

C9_Witness ==
    /\ pc = "aborted"
    /\ session = "created"
    /\ \E f \in folder : Eligible(f)

\* C10 (as claimed): a file is renamed with the processed suffix only if the
\* patch_content that appends its content completed successfully.
C10_RenamedOnlyAfterPatch ==
    \A f \in renamed :
        \E i \in CallsOf(f, "patch_content") : calls[i].ok

====
